---- MODULE Spec2Model ----
(***************************************************************************)
(* Model of the Immich Home Assistant integration:                         *)
(*   coordinator.py  ImmichCoordinator (device records, setters, tick)     *)
(*   image.py        BaseImmichImage and its four sources (candidate       *)
(*                   cache, selection, select-and-download cycle)          *)
(*   select.py       the three select entities (restore on activation)     *)
(*                                                                         *)
(* Cooperative scheduling: a task runs without interruption from one       *)
(* await of a remote call (or of asyncio.sleep) to the next.  One action   *)
(* of the model is one such uninterrupted stretch.                         *)
(*                                                                         *)
(* const.py and hub.py are not part of the sources at hand: the option     *)
(* sets, the defaults and the interval table are taken from the            *)
(* specification; a remote call returns a value or raises, chosen by the   *)
(* environment.  Times are in abstract units.                              *)
(***************************************************************************)
EXTENDS Integers, Sequences, FiniteSets, TLC

VARIABLES
    now,        \* datetime.now(), abstract units
    remote,     \* the asset ids the photo server holds
    entries,    \* the watched entries of the config entry: e -> {id,name,type,created}
    devices,    \* ImmichCoordinator.devices: device key -> device record
    devOrder,   \* insertion order of ImmichCoordinator.devices (dict iteration order)
    img,        \* the image entity of each entry: bytes, metadata, candidate cache
    task,       \* the running coroutines: position in the select-and-download cycle
    tick,       \* the pass of _async_update_data: position, refreshes called, outcome
    pool,       \* random pool: ids returned by selection since the lists were assigned
    sel,        \* select entities: activation and restore bookkeeping
    snap,       \* ImmichCoordinator.albums / persons, their timestamps, fetches in flight
    call,       \* the last call of a synchronous operation: its arguments and its result
    hass        \* Home Assistant: hass.data[DOMAIN], the config entries and their options

vars == <<now, remote, entries, devices, devOrder, img, task, tick, pool, sel, snap, call, hass>>

-----------------------------------------------------------------------------
(* Bounds of the model *)

MaxTime == 4

-----------------------------------------------------------------------------
(* Constants of const.py (named in the specification) *)

SETTING_INTERVAL_OPTIONS == {"fast", "medium", "manual"}
SETTING_INTERVAL_DEFAULT_OPTION == "medium"
SETTING_INTERVAL_MAP == [k \in {"fast", "medium"} |-> IF k = "fast" THEN 1 ELSE 2]

SETTING_THUMBNAILS_MODE_ORIGINAL == "original"
SETTING_THUMBNAILS_MODE_THUMBNAIL == "thumbnail"
SETTING_THUMBNAILS_MODE_THUMBNAIL_BACKUP == "thumbnail-with-fallback"
SETTING_THUMBNAILS_MODE_OPTIONS ==
    {SETTING_THUMBNAILS_MODE_ORIGINAL, SETTING_THUMBNAILS_MODE_THUMBNAIL,
     SETTING_THUMBNAILS_MODE_THUMBNAIL_BACKUP}
SETTING_THUMBNAILS_MODE_DEFAULT == SETTING_THUMBNAILS_MODE_THUMBNAIL_BACKUP

SETTING_ORIENTATION_PORTRAIT == "portrait"
SETTING_ORIENTATION_LANDSCAPE == "landscape"
SETTING_ORIENTATION_OPTIONS == {"any", SETTING_ORIENTATION_PORTRAIT, SETTING_ORIENTATION_LANDSCAPE}
SETTING_ORIENTATION_DEFAULT == "any"

(* size of the sample a random pool asks for (100 in the specification),  *)
(* scaled to the size of the modelled servers                              *)
RANDOM_IMAGE_COUNT == 4

CONF_WATCHED_TYPE_ALBUM == "album"
CONF_WATCHED_TYPE_PERSON == "person"
CONF_WATCHED_TYPE_FAVORITE == "favorite"
CONF_WATCHED_TYPE_RANDOM == "random"

(* image.py: _ID_LIST_REFRESH_INTERVAL, in abstract units *)
ID_LIST_REFRESH_INTERVAL == 3

-----------------------------------------------------------------------------
(* Values *)

NoAsset == "none"          \* Python None where an asset id is expected
NoImage == "noimage"       \* device record field 'image' is None
NoBytes == <<>>            \* None or b"": both are falsy, the code only tests truthiness
NoTime == -1               \* _available_asset_ids_last_updated is None
NoState == "nostate"       \* async_get_last_state() returned None

NoCall == [op |-> "none", args |-> <<>>, result |-> <<>>]

Assets == {"a1", "a2", "a3", "a4", "a5", "a6"}
Tasks == {"tick", "user"}
UserTasks == Tasks \ {"tick"}

(* the asset summaries the list calls return: a1 is taller than wide, a2   *)
(* wider than tall, a3 has zero dimensions, a4 is wider than tall and      *)
(* stored rotated, a5 has no exifInfo block, the block of a6 has no width. *)
AssetSummary ==
    [a \in Assets |->
        IF a = "a1"
        THEN [id |-> a, exifInfo |-> [exifImageWidth |-> 1, exifImageHeight |-> 2, orientation |-> "1"]]
        ELSE IF a = "a2"
        THEN [id |-> a, exifInfo |-> [exifImageWidth |-> 2, exifImageHeight |-> 1, orientation |-> "1"]]
        ELSE IF a = "a3"
        THEN [id |-> a, exifInfo |-> [exifImageWidth |-> 0, exifImageHeight |-> 0, orientation |-> "1"]]
        ELSE IF a = "a4"
        THEN [id |-> a, exifInfo |-> [exifImageWidth |-> 2, exifImageHeight |-> 1, orientation |-> "6"]]
        ELSE IF a = "a5" THEN [id |-> a]
        ELSE [id |-> a, exifInfo |-> [exifImageHeight |-> 2, orientation |-> "1"]]]

(* image.get("exifInfo") of the assets that have the block *)
AssetExif ==
    [a \in {x \in Assets : "exifInfo" \in DOMAIN AssetSummary[x]} |-> AssetSummary[a].exifInfo]

Range(s) == {s[i] : i \in DOMAIN s}

(* the asset lists a remote call can return: distinct ids of the server's *)
(* assets, at most n of them, in any order                                *)
Samples(n) ==
    {s \in UNION {[1..k -> remote] : k \in 0..n} :
        \A i, j \in DOMAIN s : i # j => s[i] # s[j]}

Min(a, b) == IF a < b THEN a ELSE b

-----------------------------------------------------------------------------
(* image.py: classification and candidate refresh *)

(* int(orientation) of _is_portrait: a decimal literal parses (with sign,  *)
(* leading zero or blanks around it), anything else, None included, raises *)
(* inside the try and yields 0                                             *)
IntLiteral == [s \in {"0", "1", "2", "3", "4", "5", "6", "7", "8", "10", "06", " 6 ", "-1"} |->
    CASE s = "0" -> 0 [] s = "1" -> 1 [] s = "2" -> 2 [] s = "3" -> 3 [] s = "4" -> 4
      [] s = "5" -> 5 [] s = "6" -> 6 [] s = "7" -> 7 [] s = "8" -> 8
      [] s = "10" -> 10 [] s = "06" -> 6 [] s = " 6 " -> 6 [] OTHER -> 0 - 1]

ParseOrientation(o) == IF o \in DOMAIN IntLiteral THEN IntLiteral[o] ELSE 0

(* _is_portrait that never looks at the orientation *)
_is_portrait_NoRotation(width, height, orientation) == width < height

(* _is_portrait with the comparisons of the two branches exchanged *)
_is_portrait_Swapped(width, height, orientation) ==
    IF ParseOrientation(orientation) <= 4 THEN width > height ELSE width < height

_is_portrait(width, height, orientation) ==
    IF ParseOrientation(orientation) <= 4 THEN width < height ELSE width > height

(* dict.get(key, default) on an exifInfo block *)
ExifGet(exif, key, default) == IF key \in DOMAIN exif THEN exif[key] ELSE default

(* image.get("exifInfo").get(...) on a summary without exifInfo raises     *)
(* AttributeError; only the favorites source tests the block first         *)
RefreshRaises(type, images) ==
    /\ type # CONF_WATCHED_TYPE_FAVORITE
    /\ \E i \in DOMAIN images : images[i] \notin DOMAIN AssetExif

(* the guard before the classification: both dimensions present and non-zero *)
UsableDimensions(a) ==
    /\ a \in DOMAIN AssetExif
    /\ ExifGet(AssetExif[a], "exifImageWidth", 0) # 0
    /\ ExifGet(AssetExif[a], "exifImageHeight", 0) # 0

AssetIsPortrait(a) ==
    _is_portrait(AssetExif[a].exifImageWidth, AssetExif[a].exifImageHeight,
                 ExifGet(AssetExif[a], "orientation", "0"))

IsPortraitId(a) == UsableDimensions(a) /\ AssetIsPortrait(a)
IsLandscapeId(a) == UsableDimensions(a) /\ ~AssetIsPortrait(a)

(* the three lists a refresh builds from the remote's answer *)
_refresh_available_asset_ids(im, images) ==
    [im EXCEPT !.all = images,
               !.portrait = SelectSeq(images, IsPortraitId),
               !.landscape = SelectSeq(images, IsLandscapeId)]

(* list.remove(x): drops the first occurrence *)
RECURSIVE ListRemove(_, _)
ListRemove(s, x) ==
    IF s = <<>> THEN <<>>
    ELSE IF Head(s) = x THEN Tail(s)
    ELSE <<Head(s)>> \o ListRemove(Tail(s), x)

Front(s) == SubSeq(s, 1, Len(s) - 1)
Last(s) == s[Len(s)]

Partition(im, orientation) ==
    IF orientation = SETTING_ORIENTATION_PORTRAIT THEN im.portrait
    ELSE IF orientation = SETTING_ORIENTATION_LANDSCAPE THEN im.landscape
    ELSE im.all

AnyListEmpty(im) == im.all = <<>> \/ im.landscape = <<>> \/ im.portrait = <<>>

(* get_asset_info of the remote, and the attributes the entity derives from it *)
AssetInfo(a) ==
    [k \in {"originalFileName", "exifInfo", "localDateTime"} |->
        IF k = "originalFileName" THEN "file-" \o a
        ELSE IF k = "exifInfo" THEN "exif-" \o a
        ELSE "local-" \o a]

DictGetOr(d, k) == IF k \in DOMAIN d THEN d[k] ELSE ""

MediaAttributes(info) ==
    [media_filename |-> DictGetOr(info, "originalFileName"),
     media_exifInfo |-> DictGetOr(info, "exifInfo"),
     media_localdatetime |-> DictGetOr(info, "localDateTime ")]

NoAttributes == [media_filename |-> "", media_exifInfo |-> "", media_localdatetime |-> ""]

-----------------------------------------------------------------------------
(* coordinator.py: device records *)

(* str(created): created is the float datetime.now().timestamp() of the    *)
(* moment the entry was added, here a whole number of time units           *)
Digit(d) ==
    CASE d = 0 -> "0" [] d = 1 -> "1" [] d = 2 -> "2" [] d = 3 -> "3" [] d = 4 -> "4"
      [] d = 5 -> "5" [] d = 6 -> "6" [] d = 7 -> "7" [] d = 8 -> "8" [] OTHER -> "9"

RECURSIVE Digits(_)
Digits(n) == IF n < 10 THEN <<Digit(n)>> ELSE Append(Digits(n \div 10), Digit(n % 10))

Str(created) == Digits(created) \o <<".", "0">>

(* get_device_id with the two parts joined without the separator *)
get_device_id_NoSeparator(id, created) == id \o Str(created)

(* '-'.join([id, str(created)]); an id is the list of its characters *)
get_device_id(id, created) == id \o <<"-">> \o Str(created)

DeviceKey(e) == get_device_id(entries[e].id, entries[e].created)

NewDeviceRecord(e) ==
    [entry |-> e,
     id |-> entries[e].id, name |-> entries[e].name,
     type |-> entries[e].type, created |-> entries[e].created,
     interval |-> SETTING_INTERVAL_DEFAULT_OPTION,
     thumbnail |-> SETTING_THUMBNAILS_MODE_DEFAULT,
     orientation |-> SETTING_ORIENTATION_DEFAULT,
     image |-> NoImage,
     selects |-> FALSE]

(* the keyword arguments of update_device; NoArg is None *)
ArgNames == {"image", "select", "interval", "thumbnail", "orientation"}
NoArg == "none"
NoArgs == [a \in ArgNames |-> NoArg]

(* truth value of an argument in "if image: ... elif select: ..." *)
Truthy(v) == v # NoArg /\ v # ""

(* update_device_args with every test an "if": all arguments are applied *)
update_device_args_AllApplied(devs, e, args) ==
    LET k == DeviceKey(e)
        old == IF k \in DOMAIN devs THEN devs[k] ELSE NewDeviceRecord(e)
        new == [old EXCEPT
                  !.image = IF Truthy(args.image) THEN args.image ELSE @,
                  !.selects = IF Truthy(args.select) THEN TRUE ELSE @,
                  !.interval = IF Truthy(args.interval) THEN args.interval ELSE @,
                  !.thumbnail = IF Truthy(args.thumbnail) THEN args.thumbnail ELSE @,
                  !.orientation = IF Truthy(args.orientation) THEN args.orientation ELSE @]
    IN [x \in DOMAIN devs \cup {k} |-> IF x = k THEN new ELSE devs[x]]

(* update_device(entry, image, select, interval, thumbnail, orientation):  *)
(* upsert, then the if / elif chain over the arguments                     *)
update_device_args(devs, e, args) ==
    LET k == DeviceKey(e)
        old == IF k \in DOMAIN devs THEN devs[k] ELSE NewDeviceRecord(e)
        new == IF Truthy(args.image) THEN [old EXCEPT !.image = args.image]
               ELSE IF Truthy(args.select) THEN [old EXCEPT !.selects = TRUE]
               ELSE IF Truthy(args.interval) THEN [old EXCEPT !.interval = args.interval]
               ELSE IF Truthy(args.thumbnail) THEN [old EXCEPT !.thumbnail = args.thumbnail]
               ELSE IF Truthy(args.orientation)
                    THEN [old EXCEPT !.orientation = args.orientation]
               ELSE old
    IN [x \in DOMAIN devs \cup {k} |-> IF x = k THEN new ELSE devs[x]]

(* update_device called with one keyword: upd is <<keyword, value>> *)
update_device(devs, e, upd) ==
    update_device_args(devs, e,
        [a \in ArgNames |-> IF a # upd[1] THEN NoArg
                            ELSE IF a = "select" THEN "set" ELSE upd[2]])

(* remove_device that deletes every record of the id, whatever its created *)
remove_device_ById(devs, id, created) ==
    [x \in {k \in DOMAIN devs : devs[k].id # id} |-> devs[x]]

(* remove_device(id, created): pops the record of the key if there is one *)
remove_device(devs, id, created) ==
    [x \in DOMAIN devs \ {get_device_id(id, created)} |-> devs[x]]

(* const.py: DOMAIN *)
IMMICH_DOMAIN == "immich"

(* get_device_info: the identifier the device of a watched entry carries *)
DeviceIdentifier(w) == <<IMMICH_DOMAIN, w.id, w.type, w.created>>

(* remove_watched that drops every entry of the id, whatever its type and  *)
(* time of creation                                                        *)
remove_watched_ById(list, id, type, created) ==
    SelectSeq(list, LAMBDA w : w.id # id)

(* async_remove_config_entry_device: the watched list without the entries  *)
(* whose id, type and created are the identifier's                         *)
remove_watched(list, id, type, created) ==
    SelectSeq(list, LAMBDA w : ~(w.id = id /\ w.type = type /\ w.created = created))

(* the position of the for loop of a suspended pass after a record is      *)
(* popped: the dict keeps the slots of its entries, a popped one is        *)
(* skipped, so the records behind it are as far from the loop as before    *)
remove_position(tk, order, key) ==
    IF tk.pc = "cycle" /\ \E i \in DOMAIN order : order[i] = key /\ i <= tk.idx
    THEN [tk EXCEPT !.idx = @ - 1]
    ELSE tk

(* the iteration order of the dict after the records of devs are gone *)
remove_order(order, devs) == SelectSeq(order, LAMBDA k : k \in DOMAIN devs)

update_order(order, devs, e) ==
    IF DeviceKey(e) \in DOMAIN devs THEN order ELSE Append(order, DeviceKey(e))

(* get_interval that has no default for an entry without a record *)
get_interval_NoDefault(devs, e) ==
    IF DeviceKey(e) \in DOMAIN devs THEN devs[DeviceKey(e)].interval ELSE NoArg

(* the getters: self.devices.get(key, {}).get(field, default) *)
get_interval(devs, e) ==
    IF DeviceKey(e) \in DOMAIN devs THEN devs[DeviceKey(e)].interval
    ELSE SETTING_INTERVAL_DEFAULT_OPTION

get_thumbnail_mode(devs, e) ==
    IF DeviceKey(e) \in DOMAIN devs THEN devs[DeviceKey(e)].thumbnail
    ELSE SETTING_THUMBNAILS_MODE_DEFAULT

get_orientation(devs, e) ==
    IF DeviceKey(e) \in DOMAIN devs THEN devs[DeviceKey(e)].orientation
    ELSE SETTING_ORIENTATION_DEFAULT

-----------------------------------------------------------------------------
(* coordinator.py: the album and person snapshots (update_albums,          *)
(* update_persons).  Both are called by the setup of the image platform    *)
(* and by the setup of the select platform, which run as separate tasks.   *)

(* const.py: ALBUM_REFRESH_INTERVAL (minutes; about 30 in the              *)
(* specification), in abstract units                                       *)
ALBUM_REFRESH_INTERVAL == 2

(* datetime.fromtimestamp(0): long before any time of the model *)
Epoch == -100

Kinds == {"albums", "persons"}
Callers == {"image", "select"}

Stamp(kind) == IF kind = "albums" THEN "album_last_update" ELSE "persons_last_update"

(* the ids the remote knows and the lists list_all_albums /                *)
(* list_named_people can answer: id -> the album's (person's) data         *)
RemoteIds == {"b1"}
RemoteLists == UNION {[D -> {"v1", "v2"}] : D \in SUBSET RemoteIds}

EmptyDict == [x \in {} |-> "v1"]

(* pc: "idle", or "fetch" while the remote call is awaited; kind: the      *)
(* snapshot of the caller's last call; result: how that call ended         *)
(* ("noop", "fetched", "raised"); seen: snapshot and timestamp when the    *)
(* call began                                                              *)
IdleCaller == [pc |-> "idle", kind |-> "albums", result |-> "none",
               seen |-> <<EmptyDict, Epoch>>]

IdleSnap ==
    [albums |-> EmptyDict, album_last_update |-> Epoch,
     persons |-> EmptyDict, persons_last_update |-> Epoch,
     pending |-> [c \in Callers |-> IdleCaller]]

(* the early return: the dict is not empty and its refresh is younger than *)
(* the interval                                                            *)
IsFresh(sn, kind, t) ==
    DOMAIN sn[kind] # {} /\ t - sn[Stamp(kind)] < ALBUM_REFRESH_INTERVAL

(* update_albums / update_persons up to the await of the remote call *)
BeginUpdate(sn, c, kind) ==
    LET seen == <<sn[kind], sn[Stamp(kind)]>>
    IN IF IsFresh(sn, kind, now)
       THEN [sn EXCEPT !.pending[c] = [pc |-> "idle", kind |-> kind,
                                       result |-> "noop", seen |-> seen]]
       ELSE [sn EXCEPT !.pending[c] = [pc |-> "fetch", kind |-> kind,
                                       result |-> "none", seen |-> seen]]

update_albums(sn, c) == BeginUpdate(sn, c, "albums")
update_persons(sn, c) == BeginUpdate(sn, c, "persons")

(* dict.update, entry by entry, with the remote's list *)
DictUpdate(d, list) ==
    [x \in DOMAIN d \cup DOMAIN list |-> IF x \in DOMAIN list THEN list[x] ELSE d[x]]

(* StoreSnapshot with one timestamp for both snapshots *)
StoreSnapshot_SharedTimer(sn, c, list) ==
    LET kind == sn.pending[c].kind
    IN [sn EXCEPT ![kind] = DictUpdate(@, list),
                  !.album_last_update = now,
                  !.persons_last_update = now,
                  !.pending[c].pc = "idle",
                  !.pending[c].result = "fetched"]

(* the remote call returned: the loop over the list and the timestamp *)
StoreSnapshot(sn, c, list) ==
    LET kind == sn.pending[c].kind
    IN [sn EXCEPT ![kind] = DictUpdate(@, list),
                  ![Stamp(kind)] = now,
                  !.pending[c].pc = "idle",
                  !.pending[c].result = "fetched"]

(* FailUpdate with the timestamp written although the call raised *)
FailUpdate_StampsAnyway(sn, c) ==
    [sn EXCEPT ![Stamp(sn.pending[c].kind)] = now,
               !.pending[c].pc = "idle",
               !.pending[c].result = "raised"]

(* the remote call raised: the exception leaves update_albums /            *)
(* update_persons, nothing after the await is executed                     *)
FailUpdate(sn, c) ==
    [sn EXCEPT !.pending[c].pc = "idle", !.pending[c].result = "raised"]

-----------------------------------------------------------------------------
(* __init__.py: setup and unload of a config entry.  The coordinator of    *)
(* the model (devices, snapshots, tick) is the one of config entry "c1".   *)

ConfigEntries == {"c1", "c2", "c3"}
PLATFORMS == {"image", "select"}

(* data: the config entries with a coordinator in hass.data[DOMAIN];       *)
(* state: where the setup of a config entry stands ("not_loaded", "auth"   *)
(* and "forward" while async_setup_entry awaits hub.authenticate and the   *)
(* forwarding to the platforms, "loaded", "setup_error", "failed_unload"); *)
(* error: the exception that left async_setup_entry; platforms: the        *)
(* platforms set up for the config entry; watched: the list                *)
(* config_entry.options[CONF_WATCHED] of "c1" as persisted                 *)
NewHass(list) ==
    [data |-> {},
     state |-> [c \in ConfigEntries |-> "not_loaded"],
     error |-> [c \in ConfigEntries |-> "none"],
     platforms |-> [c \in ConfigEntries |-> {}],
     watched |-> list]

(* "c1" has authenticated and its platforms are being set up *)
ForwardingHass(list) ==
    [NewHass(list) EXCEPT !.data = {"c1"}, !.state["c1"] = "forward"]

(* "c1" is set up *)
LoadedHass(list) ==
    [NewHass(list) EXCEPT !.data = {"c1"}, !.state["c1"] = "loaded",
                          !.platforms["c1"] = PLATFORMS]

(* async_setup_entry up to the await of hub.authenticate: nothing is       *)
(* stored yet                                                              *)
async_setup_entry(h, c) == [h EXCEPT !.state[c] = "auth", !.error[c] = "none"]

(* AfterAuthenticate with the coordinator stored before the answer is      *)
(* looked at                                                               *)
AfterAuthenticate_StoreFirst(h, c, ok) ==
    IF ok THEN [h EXCEPT !.data = @ \cup {c}, !.state[c] = "forward"]
    ELSE [h EXCEPT !.data = @ \cup {c}, !.state[c] = "setup_error",
                   !.error[c] = "InvalidAuth"]

(* hub.authenticate answered: InvalidAuth is raised on a false answer,     *)
(* otherwise the coordinator is stored and the platforms are forwarded to  *)
AfterAuthenticate(h, c, ok) ==
    IF ok THEN [h EXCEPT !.data = @ \cup {c}, !.state[c] = "forward"]
    ELSE [h EXCEPT !.state[c] = "setup_error", !.error[c] = "InvalidAuth"]

(* hub.authenticate raised: the exception leaves async_setup_entry *)
AuthenticateRaised(h, c) ==
    [h EXCEPT !.state[c] = "setup_error", !.error[c] = "other"]

(* async_forward_entry_setups returned: async_setup_entry returns True *)
AfterForward(h, c) == [h EXCEPT !.state[c] = "loaded", !.platforms[c] = PLATFORMS]

(* async_unload_entry: the coordinator is popped when the platforms unloaded *)
async_unload_entry(h, c, unload_ok) ==
    IF unload_ok
    THEN [h EXCEPT !.data = @ \ {c}, !.state[c] = "not_loaded", !.platforms[c] = {}]
    ELSE [h EXCEPT !.state[c] = "failed_unload"]

-----------------------------------------------------------------------------
(* The mutable part of the state a coroutine step works on *)

(* drawn: "no" until random.choice has drawn, then "yes", or "bad" when the *)
(* element offered to it is not in the list it draws from                  *)
Cur == [img |-> img, task |-> task, tick |-> tick, pool |-> pool, drawn |-> "no"]

(* op: the method the task runs, "update" (async_update) or "image"        *)
(* (async_image); returned: what async_image gave its caller; asset: the   *)
(* candidate the cycle attempted last                                      *)
NotReturned == <<"n/a">>

IdleTask ==
    [pc |-> "idle", ent |-> "e1", mode |-> SETTING_THUMBNAILS_MODE_DEFAULT,
     orient |-> SETTING_ORIENTATION_DEFAULT, asset |-> NoAsset, bytes |-> NoBytes,
     calls |-> {}, hadCandidates |-> FALSE, result |-> "none",
     op |-> "update", returned |-> NotReturned]

(* the coroutine of task t returns (result "ok" or "noimage") or raises ("error") *)
(* its locals are gone; what is kept is the entity, how it ended and, for  *)
(* async_image, the bytes it returned: self._current_image_bytes as it is  *)
(* when _load_and_cache_next_image has returned                            *)
EndCycle(ms, t, result) ==
    LET tk == ms.task[t]
    IN [ms EXCEPT !.task[t] =
          [IdleTask EXCEPT !.result = result,
                           !.hadCandidates = tk.hadCandidates,
                           !.ent = tk.ent,
                           !.op = tk.op,
                           !.returned = IF tk.op = "image" /\ result # "error"
                                        THEN ms.img[tk.ent].bytes ELSE NotReturned]]

(* a candidate was selected: the download call is issued *)
BeginDownload(ms, t, a, nonEmpty) ==
    [ms EXCEPT !.task[t].pc = "download",
               !.task[t].asset = a,
               !.task[t].bytes = NoBytes,
               !.task[t].calls = {},
               !.task[t].hadCandidates = nonEmpty]

NoCandidate(ms, t, nonEmpty) ==
    EndCycle([ms EXCEPT !.task[t].hadCandidates = nonEmpty], t, "noimage")

(* SelectChoice without the emptiness tests: random.choice raises          *)
(* IndexError on an empty list                                             *)
SelectChoice_NoEmptyTest(ms, t, pick) ==
    LET tk == ms.task[t]
        part == Partition(ms.img[tk.ent], tk.orient)
    IN IF part = <<>> THEN EndCycle(ms, t, "error")
       ELSE IF pick \in Range(part) /\ ms.drawn = "no"
            THEN BeginDownload([ms EXCEPT !.drawn = "yes"], t, pick, TRUE)
       ELSE [ms EXCEPT !.drawn = "bad"]

(* BaseImmichImage._get_next_asset_id after the refresh test: random.choice *)
(* picks any element of the requested list; pick is the element it draws.   *)
SelectChoice(ms, t, pick) ==
    LET tk == ms.task[t]
        part == Partition(ms.img[tk.ent], tk.orient)
    IN IF part = <<>> THEN NoCandidate(ms, t, FALSE)
       ELSE IF pick \in Range(part) /\ ms.drawn = "no"
            THEN BeginDownload([ms EXCEPT !.drawn = "yes"], t, pick, TRUE)
       ELSE [ms EXCEPT !.drawn = "bad"]

(* SelectPop with the portrait and landscape branches leaving the          *)
(* unfiltered list alone                                                   *)
SelectPop_KeepInAll(ms, t) ==
    LET tk == ms.task[t]
        e == tk.ent
        im == ms.img[e]
        nonEmpty == Partition(im, tk.orient) # <<>>
    IN IF AnyListEmpty(im) THEN NoCandidate(ms, t, nonEmpty)
       ELSE
        LET a == Last(Partition(im, tk.orient))
            im2 ==
              IF tk.orient = SETTING_ORIENTATION_PORTRAIT THEN
                  [im EXCEPT !.portrait = Front(@)]
              ELSE IF tk.orient = SETTING_ORIENTATION_LANDSCAPE THEN
                  [im EXCEPT !.landscape = Front(@)]
              ELSE
                  IF a \in Range(im.portrait)
                  THEN [im EXCEPT !.all = Front(@), !.portrait = ListRemove(@, a)]
                  ELSE IF a \in Range(im.landscape)
                  THEN [im EXCEPT !.all = Front(@), !.landscape = ListRemove(@, a)]
                  ELSE [im EXCEPT !.all = Front(@)]
        IN BeginDownload([ms EXCEPT !.img[e] = im2, !.pool[e] = Append(@, a)],
                         t, a, TRUE)

(* SelectPop with the unfiltered branch leaving the portrait and landscape *)
(* lists alone                                                             *)
SelectPop_KeepInPartitions(ms, t) ==
    LET tk == ms.task[t]
        e == tk.ent
        im == ms.img[e]
        nonEmpty == Partition(im, tk.orient) # <<>>
    IN IF AnyListEmpty(im) THEN NoCandidate(ms, t, nonEmpty)
       ELSE
        LET a == Last(Partition(im, tk.orient))
            im2 ==
              IF tk.orient = SETTING_ORIENTATION_PORTRAIT THEN
                  [im EXCEPT !.portrait = Front(@),
                             !.all = IF a \in Range(@) THEN ListRemove(@, a) ELSE @]
              ELSE IF tk.orient = SETTING_ORIENTATION_LANDSCAPE THEN
                  [im EXCEPT !.landscape = Front(@),
                             !.all = IF a \in Range(@) THEN ListRemove(@, a) ELSE @]
              ELSE [im EXCEPT !.all = Front(@)]
        IN BeginDownload([ms EXCEPT !.img[e] = im2, !.pool[e] = Append(@, a)],
                         t, a, TRUE)

(* ImmichImageRandom._get_next_asset_id after the refresh: second          *)
(* emptiness test, then pop() from the requested list and removal from the *)
(* list(s) that mirror it                                                  *)
SelectPop(ms, t) ==
    LET tk == ms.task[t]
        e == tk.ent
        im == ms.img[e]
        nonEmpty == Partition(im, tk.orient) # <<>>
    IN IF AnyListEmpty(im) THEN NoCandidate(ms, t, nonEmpty)
       ELSE
        LET a == Last(Partition(im, tk.orient))
            im2 ==
              IF tk.orient = SETTING_ORIENTATION_PORTRAIT THEN
                  [im EXCEPT !.portrait = Front(@),
                             !.all = IF a \in Range(@) THEN ListRemove(@, a) ELSE @]
              ELSE IF tk.orient = SETTING_ORIENTATION_LANDSCAPE THEN
                  [im EXCEPT !.landscape = Front(@),
                             !.all = IF a \in Range(@) THEN ListRemove(@, a) ELSE @]
              ELSE
                  IF a \in Range(im.portrait)
                  THEN [im EXCEPT !.all = Front(@), !.portrait = ListRemove(@, a)]
                  ELSE IF a \in Range(im.landscape)
                  THEN [im EXCEPT !.all = Front(@), !.landscape = ListRemove(@, a)]
                  ELSE [im EXCEPT !.all = Front(@)]
        IN BeginDownload([ms EXCEPT !.img[e] = im2, !.pool[e] = Append(@, a)],
                         t, a, TRUE)

IsRandom(e) == entries[e].type = CONF_WATCHED_TYPE_RANDOM

(* NeedsRefresh with the list of a non-random source stale as soon as its  *)
(* age reaches the window                                                  *)
NeedsRefresh_AtLeast(im, e) ==
    IF IsRandom(e) THEN AnyListEmpty(im)
    ELSE im.ids_last = NoTime \/ now - im.ids_last >= ID_LIST_REFRESH_INTERVAL

(* NeedsRefresh with the random pool refetched like the other sources too, *)
(* on the age of its lists                                                 *)
NeedsRefresh_TimerForAll(im, e) ==
    \/ IsRandom(e) /\ AnyListEmpty(im)
    \/ im.ids_last = NoTime
    \/ now - im.ids_last > ID_LIST_REFRESH_INTERVAL

(* the refresh test at the head of _get_next_asset_id *)
NeedsRefresh(im, e) ==
    IF IsRandom(e) THEN AnyListEmpty(im)
    ELSE im.ids_last = NoTime \/ now - im.ids_last > ID_LIST_REFRESH_INTERVAL

(* head of the while loop of _load_and_cache_next_image, up to its first await *)
LoopHead(ms, t, pick) ==
    LET e == ms.task[t].ent
    IN IF NeedsRefresh(ms.img[e], e) THEN [ms EXCEPT !.task[t].pc = "refresh"]
       ELSE IF IsRandom(e) THEN SelectPop(ms, t)
       ELSE SelectChoice(ms, t, pick)

(* async_update(thumbnail_mode, orientation) called by task t on entity e *)
async_update(ms, t, e, mode, orientation, pick) ==
    LoopHead([ms EXCEPT !.task[t] =
                 [IdleTask EXCEPT !.ent = e, !.mode = mode, !.orient = orientation]],
             t, pick)

(* async_image without the test of the bytes: every call runs a cycle *)
async_image_AlwaysLoads(ms, devs, t, e, pick) ==
    LoopHead([ms EXCEPT !.task[t] =
                 [IdleTask EXCEPT !.ent = e, !.op = "image",
                                  !.mode = get_thumbnail_mode(devs, e),
                                  !.orient = get_orientation(devs, e)]],
             t, pick)

(* async_image called by task t on entity e: the bytes the entity holds,   *)
(* or a cycle with the coordinator's settings for the entry first          *)
async_image(ms, devs, t, e, pick) ==
    IF ms.img[e].bytes # NoBytes
    THEN [ms EXCEPT !.task[t] = [IdleTask EXCEPT !.ent = e, !.op = "image",
                                                 !.result = "cached",
                                                 !.returned = ms.img[e].bytes]]
    ELSE LoopHead([ms EXCEPT !.task[t] =
                      [IdleTask EXCEPT !.ent = e, !.op = "image",
                                       !.mode = get_thumbnail_mode(devs, e),
                                       !.orient = get_orientation(devs, e)]],
                  t, pick)

(* the remote's list arrives: lists and (non-random) timestamp are set, then selection *)
AfterRefresh(ms, t, images, pick) ==
    LET e == ms.task[t].ent
    IN IF RefreshRaises(entries[e].type, images) THEN EndCycle(ms, t, "error")
       ELSE IF IsRandom(e)
       THEN SelectPop([ms EXCEPT !.img[e] = _refresh_available_asset_ids(@, images),
                                 !.pool[e] = <<>>], t)
       ELSE SelectChoice([ms EXCEPT !.img[e] =
                              [_refresh_available_asset_ids(@, images) EXCEPT !.ids_last = now]],
                         t, pick)

(* get_asset_stats reported images = 0: the random refresh returns early *)
AfterEmptyStats(ms, t) == SelectPop(ms, t)

(* the download calls of one loop iteration and what they leave in asset_bytes *)
FirstCall(mode) ==
    IF mode = SETTING_THUMBNAILS_MODE_ORIGINAL THEN {"original"} ELSE {}

SecondCall(mode, bytes) ==
    IF mode = SETTING_THUMBNAILS_MODE_THUMBNAIL
       \/ (mode = SETTING_THUMBNAILS_MODE_THUMBNAIL_BACKUP /\ bytes = NoBytes)
    THEN {"thumbnail"} ELSE {}

(* o1, o2: what download_asset / download_thumbnail answer if called *)
AfterDownload(ms, t, o1, o2) ==
    LET tk == ms.task[t]
        c1 == FirstCall(tk.mode)
        b1 == IF c1 # {} /\ o1 = "bytes" THEN <<tk.asset, "original">> ELSE NoBytes
        c2 == SecondCall(tk.mode, b1)
        b2 == IF c2 = {} THEN b1
              ELSE IF o2 = "bytes" THEN <<tk.asset, "thumbnail">> ELSE NoBytes
        raised == (c1 # {} /\ o1 = "raise") \/ (c2 # {} /\ o2 = "raise")
        ms1 == [ms EXCEPT !.task[t].calls = c1 \cup c2, !.task[t].bytes = b2]
    IN IF raised THEN EndCycle(ms1, t, "error")
       ELSE IF b2 = NoBytes THEN [ms1 EXCEPT !.task[t].pc = "sleep"]
       ELSE [ms1 EXCEPT !.task[t].pc = "info"]

(* get_asset_info returned: attributes, bytes and timestamps are stored, the loop ends *)
StoreImage(ms, t) ==
    LET tk == ms.task[t]
    IN EndCycle([ms EXCEPT !.img[tk.ent].attributes = MediaAttributes(AssetInfo(tk.asset)),
                           !.img[tk.ent].bytes = tk.bytes,
                           !.img[tk.ent].last_updated = now],
                t, "ok")

-----------------------------------------------------------------------------
(* coordinator.py: the tick, _async_update_data *)

(* pc: "idle", or "cycle" while the pass is suspended in a refresh;         *)
(* idx: position of the for loop in the dict; refreshed: the keys whose     *)
(* async_update the pass has called, in call order; outcome of the pass;    *)
(* unreached: the due records an exception kept the pass from evaluating    *)
(* pass: alternates with every pass begun; used: the size of the dict when  *)
(* the iteration began (the dict iterator raises RuntimeError at its next   *)
(* step when the size is another); error: the exception that ended the pass *)
IdleTick == [pc |-> "idle", idx |-> 0, refreshed |-> <<>>, outcome |-> "none",
             unreached |-> {}, pass |-> 0, used |-> 0, left |-> 0,
             error |-> "none"]

IsDue_AtLeast(interval, elapsed) ==
    interval \in DOMAIN SETTING_INTERVAL_MAP /\ elapsed >= SETTING_INTERVAL_MAP[interval]

(* the test of one record: interval known and elapsed strictly above it *)
IsDue(interval, elapsed) ==
    interval \in DOMAIN SETTING_INTERVAL_MAP /\ elapsed > SETTING_INTERVAL_MAP[interval]

DueNow(ms, k) ==
    /\ devices[k].image # NoImage
    /\ IsDue(devices[k].interval, now - ms.img[devices[k].image].last_updated)

(* an exception leaves the for loop at position i: the pass is over.  The  *)
(* record at i has been evaluated unless the iterator itself raised        *)
TickRaise(ms, i, error) ==
    LET from == IF error = "RuntimeError" THEN i ELSE i + 1
    IN [ms EXCEPT !.tick.pc = "idle", !.tick.idx = i, !.tick.outcome = "failed",
                  !.tick.error = error,
                  !.tick.unreached =
                      {devOrder[j] : j \in {x \in DOMAIN devOrder :
                                               x >= from /\ DueNow(ms, devOrder[x])}}]

(* the for loop from position i on, up to the await inside a refresh that  *)
(* suspends, the end of the dict, or an exception.  The iterator of        *)
(* self.devices.values() raises RuntimeError when the dict has another     *)
(* size than at the start of the loop, or holds a record more after it has *)
(* handed out as many records as the dict had at the start                 *)
RECURSIVE TickScan(_, _, _)
TickScan(ms, i, pick) ==
    IF Len(devOrder) # ms.tick.used THEN TickRaise(ms, i, "RuntimeError")
    ELSE IF i > Len(devOrder)
    THEN [ms EXCEPT !.tick.pc = "idle", !.tick.idx = i, !.tick.outcome = "completed"]
    ELSE IF ms.tick.left = 0 THEN TickRaise(ms, i, "RuntimeError")
    ELSE
      LET rec == devices[devOrder[i]]
          handed == [ms EXCEPT !.tick.left = @ - 1]
      IN IF rec.image = NoImage THEN TickRaise(handed, i, "AttributeError")
         ELSE
           LET elapsed == now - ms.img[rec.image].last_updated
               args == <<rec.thumbnail, rec.orientation>>
           IN IF IsDue(rec.interval, elapsed)
              THEN LET logged == [handed EXCEPT !.tick.refreshed = Append(@, devOrder[i])]
                       started == async_update(logged, "tick", rec.image,
                                               args[1], args[2], pick)
                   IN IF started.task["tick"].pc = "idle"
                      THEN TickScan(started, i + 1, pick)
                      ELSE [started EXCEPT !.tick.pc = "cycle", !.tick.idx = i]
              ELSE TickScan(handed, i + 1, pick)

(* after a step of task t: when the tick's refresh has returned or raised, *)
(* the for loop goes on or the exception leaves _async_update_data         *)
Resume(ms, t, pick) ==
    IF t = "tick" /\ ms.task[t].pc = "idle"
    THEN IF ms.task[t].result = "error" THEN TickRaise(ms, ms.tick.idx, "refresh")
         ELSE TickScan(ms, ms.tick.idx + 1, pick)
    ELSE ms

AnyAsset == CHOOSE a \in Assets : TRUE

(* the asset offered to random.choice: any, when a step can draw *)
Picks == IF \E e \in DOMAIN entries : ~IsRandom(e) THEN remote ELSE {AnyAsset}

Commit(ms, pick) ==
    /\ ms.drawn = "yes" \/ (ms.drawn = "no" /\ pick = CHOOSE a \in Picks : TRUE)
    /\ img' = ms.img
    /\ task' = ms.task
    /\ tick' = ms.tick
    /\ pool' = ms.pool

-----------------------------------------------------------------------------
(* Actions *)

Outcomes == {"bytes", "empty", "raise"}

(* the coordinator's timer fires: one pass of _async_update_data begins *)
TickStart ==
    /\ tick.pc = "idle"
    /\ \E pick \in Picks :
          Commit(TickScan([Cur EXCEPT !.tick = [IdleTick EXCEPT !.pass = 1 - tick.pass,
                                                                !.used = Len(devOrder),
                                                                !.left = Len(devOrder)]],
                          1, pick), pick)
    /\ UNCHANGED <<now, remote, entries, hass, snap, call, devices, devOrder, sel>>

(* the remote answers the list call of a refresh *)
RefreshReturn(t) ==
    /\ task[t].pc = "refresh"
    /\ \E images \in Samples(Min(RANDOM_IMAGE_COUNT, Cardinality(remote))), pick \in Picks :
          Commit(Resume(AfterRefresh(Cur, t, images, pick), t, pick), pick)
    /\ UNCHANGED <<now, remote, entries, hass, snap, call, devices, devOrder, sel>>

(* random pool: get_asset_stats reports no image *)
RefreshEmptyStats(t) ==
    /\ task[t].pc = "refresh"
    /\ IsRandom(task[t].ent)
    /\ \E pick \in Picks : Commit(Resume(AfterEmptyStats(Cur, t), t, pick), pick)
    /\ UNCHANGED <<now, remote, entries, hass, snap, call, devices, devOrder, sel>>

(* the remote call of a refresh raises: the exception leaves the cycle *)
RefreshRaise(t) ==
    /\ task[t].pc = "refresh"
    /\ \E pick \in Picks : Commit(Resume(EndCycle(Cur, t, "error"), t, pick), pick)
    /\ UNCHANGED <<now, remote, entries, hass, snap, call, devices, devOrder, sel>>

(* the download call(s) of one iteration answer *)
DownloadReturn(t) ==
    /\ task[t].pc = "download"
    /\ \E o1 \in (IF FirstCall(task[t].mode) # {} THEN Outcomes ELSE {"empty"}),
          o2 \in (IF SecondCall(task[t].mode, NoBytes) # {} THEN Outcomes ELSE {"empty"}),
          pick \in Picks :
          Commit(Resume(AfterDownload(Cur, t, o1, o2), t, pick), pick)
    /\ UNCHANGED <<now, remote, entries, hass, snap, call, devices, devOrder, sel>>

(* asyncio.sleep(1) is over: next iteration of the while loop *)
Wake(t) ==
    /\ task[t].pc = "sleep"
    /\ \E pick \in Picks : Commit(Resume(LoopHead(Cur, t, pick), t, pick), pick)
    /\ UNCHANGED <<now, remote, entries, hass, snap, call, devices, devOrder, sel>>

(* get_asset_info answers *)
InfoReturn(t) ==
    /\ task[t].pc = "info"
    /\ \E pick \in Picks : Commit(Resume(StoreImage(Cur, t), t, pick), pick)
    /\ UNCHANGED <<now, remote, entries, hass, snap, call, devices, devOrder, sel>>

InfoRaise(t) ==
    /\ task[t].pc = "info"
    /\ \E pick \in Picks : Commit(Resume(EndCycle(Cur, t, "error"), t, pick), pick)
    /\ UNCHANGED <<now, remote, entries, hass, snap, call, devices, devOrder, sel>>

(* time passes *)
Advance ==
    /\ now < MaxTime
    /\ now' = now + 1
    /\ UNCHANGED <<remote, entries, hass, snap, call, devices, devOrder, img, task, tick, pool, sel>>

(* update_image reading the record as it was before the setter stored *)
update_image_BeforeStore(ms, devs, t, e, pick) ==
    LET rec == devices[DeviceKey(e)]
    IN IF DeviceKey(e) \in DOMAIN devices /\ rec.image # NoImage
       THEN async_update(ms, t, rec.image, rec.thumbnail, rec.orientation, pick)
       ELSE [ms EXCEPT !.task[t] = [IdleTask EXCEPT !.ent = e, !.result = "nocycle"]]

(* update_image without the test of the image reference: async_update is   *)
(* called on the None of a record that has no image entity, which raises   *)
update_image_NoImageTest(ms, devs, t, e, pick) ==
    LET rec == devs[DeviceKey(e)]
    IN IF DeviceKey(e) \in DOMAIN devs /\ rec.image # NoImage
       THEN async_update(ms, t, rec.image, rec.thumbnail, rec.orientation, pick)
       ELSE [ms EXCEPT !.task[t] = [IdleTask EXCEPT !.ent = e, !.result = "error"]]

(* update_image: refresh the entry's image entity with the record's settings *)
update_image(ms, devs, t, e, pick) ==
    LET rec == devs[DeviceKey(e)]
    IN IF DeviceKey(e) \in DOMAIN devs /\ rec.image # NoImage
       THEN async_update(ms, t, rec.image, rec.thumbnail, rec.orientation, pick)
       ELSE [ms EXCEPT !.task[t] = [IdleTask EXCEPT !.ent = e, !.result = "nocycle"]]

set_interval(e, interval) ==
    /\ devices' = update_device(devices, e, <<"interval", interval>>)
    /\ devOrder' = update_order(devOrder, devices, e)

set_thumbnail_mode(t, e, mode) ==
    /\ devices' = update_device(devices, e, <<"thumbnail", mode>>)
    /\ devOrder' = update_order(devOrder, devices, e)
    /\ \E pick \in Picks : Commit(update_image(Cur, devices', t, e, pick), pick)

set_orientation(t, e, orientation) ==
    /\ devices' = update_device(devices, e, <<"orientation", orientation>>)
    /\ devOrder' = update_order(devOrder, devices, e)
    /\ \E pick \in Picks : Commit(update_image(Cur, devices', t, e, pick), pick)

(* the user picks an option of a select entity (async_select_option) *)
SelectInterval(e) ==
    /\ "interval" \in sel[e].added
    /\ \E option \in SETTING_INTERVAL_OPTIONS : set_interval(e, option)
    /\ UNCHANGED <<now, remote, entries, hass, snap, call, img, task, tick, pool, sel>>

SelectThumbnailsMode(t, e) ==
    /\ "thumbnail" \in sel[e].added
    /\ task[t].pc = "idle"
    /\ \E option \in SETTING_THUMBNAILS_MODE_OPTIONS : set_thumbnail_mode(t, e, option)
    /\ UNCHANGED <<now, remote, entries, hass, snap, call, sel>>

SelectOrientation(t, e) ==
    /\ "orientation" \in sel[e].added
    /\ task[t].pc = "idle"
    /\ \E option \in SETTING_ORIENTATION_OPTIONS : set_orientation(t, e, option)
    /\ UNCHANGED <<now, remote, entries, hass, snap, call, sel>>

(* the frontend asks the image entity of e for its image *)
AsyncImage(t, e) ==
    /\ task[t].pc = "idle"
    /\ DeviceKey(e) \in DOMAIN devices
    /\ devices[DeviceKey(e)].image = e
    /\ \E pick \in Picks : Commit(async_image(Cur, devices, t, e, pick), pick)
    /\ UNCHANGED <<now, remote, entries, hass, snap, call, devices, devOrder, sel>>

(* a call of update_device with any keywords *)
UpdateDevice(e, args) ==
    /\ devices' = update_device_args(devices, e, args)
    /\ devOrder' = update_order(devOrder, devices, e)
    /\ call' = [op |-> "update_device", args |-> <<e, args>>, result |-> <<>>]
    /\ UNCHANGED <<now, remote, entries, hass, snap, img, task, tick, pool, sel>>

(* a call of remove_device; result: whether a record was popped *)
RemoveDevice(id, created) ==
    /\ devices' = remove_device(devices, id, created)
    /\ devOrder' = remove_order(devOrder, devices')
    /\ call' = [op |-> "remove_device", args |-> <<id, created>>,
                result |-> <<get_device_id(id, created) \in DOMAIN devices>>]
    /\ UNCHANGED <<now, remote, entries, hass, snap, img, task, tick, pool, sel>>

(* the user removes a device in the device registry; identifiers are the   *)
(* ones the device carries.  The entities of the device and the reload the *)
(* options update asks for come later.                                     *)
RemoveConfigEntryDevice(identifiers) ==
    LET own == {x \in identifiers : x[1] = IMMICH_DOMAIN}
    IN /\ IF own = {}
          THEN /\ call' = [op |-> "async_remove_config_entry_device",
                           args |-> <<identifiers>>, result |-> <<FALSE>>]
               /\ UNCHANGED <<devices, devOrder, tick, hass>>
          ELSE \E identifier \in own :
                 /\ devices' = remove_device(devices, identifier[2], identifier[4])
                 /\ devOrder' = remove_order(devOrder, devices')
                 /\ tick' = remove_position(tick, devOrder,
                                            get_device_id(identifier[2], identifier[4]))
                 /\ hass' = [hass EXCEPT !.watched =
                                remove_watched(@, identifier[2], identifier[3], identifier[4])]
                 /\ call' = [op |-> "async_remove_config_entry_device",
                             args |-> <<identifiers>>, result |-> <<TRUE>>]
       /\ UNCHANGED <<now, remote, entries, snap, img, task, pool, sel>>

(* the three getters are called for an entry *)
GetSettings(e) ==
    /\ call' = [op |-> "get", args |-> <<e>>,
                result |-> <<get_interval(devices, e), get_thumbnail_mode(devices, e),
                             get_orientation(devices, e)>>]
    /\ UNCHANGED <<now, remote, entries, hass, snap, devices, devOrder, img, task, tick, pool, sel>>

(* the keys of two watched entries are computed, the first one twice and   *)
(* by both forms of the call (get_device_id(entry), get_device_id(id=,     *)
(* created=))                                                              *)
GetDeviceIds(e1, e2) ==
    /\ call' = [op |-> "get_device_id", args |-> <<e1, e2>>,
                result |-> <<DeviceKey(e1), DeviceKey(e2),
                             get_device_id(entries[e1].id, entries[e1].created)>>]
    /\ UNCHANGED <<now, remote, entries, hass, snap, devices, devOrder, img, task, tick, pool, sel>>

(* _is_portrait applied to the dimensions and the orientation of an asset *)
Classify(width, height, orientation) ==
    /\ call' = [op |-> "_is_portrait", args |-> <<width, height, orientation>>,
                result |-> <<_is_portrait(width, height, orientation)>>]
    /\ UNCHANGED <<now, remote, entries, hass, snap, devices, devOrder, img, task, tick, pool, sel>>

(* Home Assistant sets up a config entry (at start, or again after an      *)
(* error or an unload)                                                     *)
SetupEntry(c) ==
    /\ hass.state[c] \in {"not_loaded", "setup_error"}
    /\ hass' = async_setup_entry(hass, c)
    /\ UNCHANGED <<now, remote, entries, snap, call, devices, devOrder, img, task, tick, pool, sel>>

AuthenticateReturn(c) ==
    /\ hass.state[c] = "auth"
    /\ \E ok \in BOOLEAN : hass' = AfterAuthenticate(hass, c, ok)
    /\ UNCHANGED <<now, remote, entries, snap, call, devices, devOrder, img, task, tick, pool, sel>>

AuthenticateRaise(c) ==
    /\ hass.state[c] = "auth"
    /\ hass' = AuthenticateRaised(hass, c)
    /\ UNCHANGED <<now, remote, entries, snap, call, devices, devOrder, img, task, tick, pool, sel>>

ForwardReturn(c) ==
    /\ hass.state[c] = "forward"
    /\ hass' = AfterForward(hass, c)
    /\ UNCHANGED <<now, remote, entries, snap, call, devices, devOrder, img, task, tick, pool, sel>>

UnloadEntry(c) ==
    /\ hass.state[c] = "loaded"
    /\ \E unload_ok \in BOOLEAN : hass' = async_unload_entry(hass, c, unload_ok)
    /\ UNCHANGED <<now, remote, entries, snap, call, devices, devOrder, img, task, tick, pool, sel>>

(* a platform setup calls update_albums / update_persons *)
CallUpdateAlbums(c) ==
    /\ snap.pending[c].pc = "idle"
    /\ snap' = update_albums(snap, c)
    /\ UNCHANGED <<now, remote, entries, hass, call, devices, devOrder, img, task, tick, pool, sel>>

CallUpdatePersons(c) ==
    /\ snap.pending[c].pc = "idle"
    /\ snap' = update_persons(snap, c)
    /\ UNCHANGED <<now, remote, entries, hass, call, devices, devOrder, img, task, tick, pool, sel>>

(* the remote answers list_all_albums / list_named_people *)
FetchReturn(c) ==
    /\ snap.pending[c].pc = "fetch"
    /\ \E list \in RemoteLists : snap' = StoreSnapshot(snap, c, list)
    /\ UNCHANGED <<now, remote, entries, hass, call, devices, devOrder, img, task, tick, pool, sel>>

FetchRaise(c) ==
    /\ snap.pending[c].pc = "fetch"
    /\ snap' = FailUpdate(snap, c)
    /\ UNCHANGED <<now, remote, entries, hass, call, devices, devOrder, img, task, tick, pool, sel>>

-----------------------------------------------------------------------------
(* Platform setup (image.py and select.py async_setup_entry) and the       *)
(* activation of the select entities (async_added_to_hass)                 *)

Settings == {"interval", "thumbnail", "orientation"}

(* what async_get_last_state can give: nothing, an option, or a value that *)
(* is no option (any more)                                                 *)
LastStates(options) == options \cup {NoState, "stale"}

(* RestoredOption without the membership test: any persisted state is     *)
(* handed on                                                               *)
RestoredOption_KeepStale(state, options, default) ==
    IF state = NoState THEN default ELSE state

(* the value the activation hands to the coordinator *)
RestoredOption(state, options, default) ==
    IF state = NoState \/ state \notin options THEN default ELSE state

FreshImage(t) ==
    [bytes |-> NoBytes, attributes |-> NoAttributes, last_updated |-> t,
     all |-> <<>>, portrait |-> <<>>, landscape |-> <<>>, ids_last |-> NoTime]

(* image platform: the entity is created and registered in the record *)
RegisterImage(e) ==
    /\ IF DeviceKey(e) \in DOMAIN devices THEN devices[DeviceKey(e)].image = NoImage ELSE TRUE
    /\ devices' = update_device(devices, e, <<"image", e>>)
    /\ devOrder' = update_order(devOrder, devices, e)
    /\ img' = [img EXCEPT ![e] = FreshImage(now)]
    /\ UNCHANGED <<now, remote, entries, hass, snap, call, task, tick, pool, sel>>

(* select platform: the three select entities are registered in the record *)
RegisterSelects(e) ==
    /\ IF DeviceKey(e) \in DOMAIN devices THEN ~devices[DeviceKey(e)].selects ELSE TRUE
    /\ devices' = update_device(devices, e, <<"select", TRUE>>)
    /\ devOrder' = update_order(devOrder, devices, e)
    /\ UNCHANGED <<now, remote, entries, hass, snap, call, img, task, tick, pool, sel>>

Activated(e, setting, state) ==
    sel' = [sel EXCEPT ![e].added = @ \cup {setting}, ![e].restored[setting] = state]

AddedInterval(e) ==
    /\ "interval" \notin sel[e].added
    /\ \E state \in LastStates(SETTING_INTERVAL_OPTIONS) :
          /\ set_interval(e, RestoredOption(state, SETTING_INTERVAL_OPTIONS,
                                            SETTING_INTERVAL_DEFAULT_OPTION))
          /\ Activated(e, "interval", state)
    /\ UNCHANGED <<now, remote, entries, hass, snap, call, img, task, tick, pool>>

AddedThumbnailsMode(t, e) ==
    /\ "thumbnail" \notin sel[e].added
    /\ task[t].pc = "idle"
    /\ \E state \in LastStates(SETTING_THUMBNAILS_MODE_OPTIONS) :
          /\ set_thumbnail_mode(t, e, RestoredOption(state, SETTING_THUMBNAILS_MODE_OPTIONS,
                                                     SETTING_THUMBNAILS_MODE_DEFAULT))
          /\ Activated(e, "thumbnail", state)
    /\ UNCHANGED <<now, remote, entries, hass, snap, call>>

AddedOrientation(t, e) ==
    /\ "orientation" \notin sel[e].added
    /\ task[t].pc = "idle"
    /\ \E state \in LastStates(SETTING_ORIENTATION_OPTIONS) :
          /\ set_orientation(t, e, RestoredOption(state, SETTING_ORIENTATION_OPTIONS,
                                                  SETTING_ORIENTATION_DEFAULT))
          /\ Activated(e, "orientation", state)
    /\ UNCHANGED <<now, remote, entries, hass, snap, call>>

-----------------------------------------------------------------------------------------------------------------------------------------------------
(* Specifications *)

SourceTypes == {CONF_WATCHED_TYPE_ALBUM, CONF_WATCHED_TYPE_PERSON,
                CONF_WATCHED_TYPE_FAVORITE, CONF_WATCHED_TYPE_RANDOM}

WatchedEntry(e, type) ==
    [id |-> <<"id", e>>, name |-> "name-" \o e, type |-> type, created |-> 1]

(* state after the coordinator is constructed, for a given watched list    *)
(* and a given content of the photo server                                 *)
ListOf(watched) ==
    LET D == DOMAIN watched
        order == CHOOSE s \in [1..Cardinality(D) -> D] : Range(s) = D
    IN [i \in DOMAIN order |-> watched[order[i]]]

(* the coordinator as constructed, before any platform has registered *)
NewCoordinator(watched, assets) ==
    /\ now = 0
    /\ remote = assets
    /\ entries = watched
    /\ devices = [k \in {} |-> NewDeviceRecord("e1")]
    /\ devOrder = <<>>
    /\ img = [e \in DOMAIN watched |-> FreshImage(0)]
    /\ task = [t \in Tasks |-> IdleTask]
    /\ tick = IdleTick
    /\ snap = IdleSnap
    /\ call = NoCall
    /\ pool = [e \in DOMAIN watched |-> <<>>]
    /\ sel = [e \in DOMAIN watched |->
                 [added |-> {}, restored |-> [s \in Settings |-> NoState]]]

InitWith(watched, assets) ==
    /\ NewCoordinator(watched, assets)
    /\ hass = ForwardingHass(ListOf(watched))

DefaultSettings ==
    [interval |-> SETTING_INTERVAL_DEFAULT_OPTION,
     thumbnail |-> SETTING_THUMBNAILS_MODE_DEFAULT,
     orientation |-> SETTING_ORIENTATION_DEFAULT]

(* state after both platforms are set up: every entry has its record, its  *)
(* image entity and its activated select entities, the settings are the    *)
(* ones restored (the defaults when there was nothing to restore); no      *)
(* image has been loaded yet and t0 time units have passed since the image *)
(* entities were created                                                   *)
InitRunning(watched, order, assets, t0, settings) ==
    /\ now = t0
    /\ remote = assets
    /\ entries = watched
    /\ devices = [k \in {get_device_id(watched[e].id, watched[e].created) : e \in DOMAIN watched} |->
                    LET e == CHOOSE x \in DOMAIN watched :
                                 get_device_id(watched[x].id, watched[x].created) = k
                    IN [entry |-> e,
                        id |-> watched[e].id, name |-> watched[e].name,
                        type |-> watched[e].type, created |-> watched[e].created,
                        interval |-> settings[e].interval,
                        thumbnail |-> settings[e].thumbnail,
                        orientation |-> settings[e].orientation,
                        image |-> e,
                        selects |-> TRUE]]
    /\ devOrder = [i \in DOMAIN order |->
                      get_device_id(watched[order[i]].id, watched[order[i]].created)]
    /\ img = [e \in DOMAIN watched |-> FreshImage(0)]
    /\ task = [t \in Tasks |-> IdleTask]
    /\ tick = IdleTick
    /\ snap = IdleSnap
    /\ call = NoCall
    /\ pool = [e \in DOMAIN watched |-> <<>>]
    /\ sel = [e \in DOMAIN watched |->
                 [added |-> Settings, restored |-> [s \in Settings |-> NoState]]]
    /\ hass = LoadedHass(ListOf(watched))

-----------------------------------------------------------------------------
(* SpecTick: two watched entries, the tick, the clock and the interval     *)
(* select; the entries' thumbnail mode and orientation are the restored    *)
(* ones                                                                    *)

InitTick ==
    \E mode \in SETTING_THUMBNAILS_MODE_OPTIONS, orientation \in SETTING_ORIENTATION_OPTIONS :
        InitRunning([e \in {"e1", "e2"} |->
                        WatchedEntry(e, IF e = "e1" THEN CONF_WATCHED_TYPE_ALBUM
                                        ELSE CONF_WATCHED_TYPE_FAVORITE)],
                    <<"e1", "e2">>, {"a1"}, 0,
                    [e \in {"e1", "e2"} |->
                        IF e = "e1"
                        THEN [DefaultSettings EXCEPT !.thumbnail = mode,
                                                     !.orientation = orientation]
                        ELSE DefaultSettings])

NextTick ==
    \/ TickStart
    \/ Advance
    \/ RefreshReturn("tick")
    \/ RefreshRaise("tick")
    \/ DownloadReturn("tick")
    \/ Wake("tick")
    \/ InfoReturn("tick")
    \/ InfoRaise("tick")
    \/ \E e \in DOMAIN entries : SelectInterval(e)

SpecTick == InitTick /\ [][NextTick]_vars

-----------------------------------------------------------------------------
(* SpecPool: one watched entry of any source type whose image is overdue;  *)
(* the tick and the orientation select both refresh it                     *)

InitPool ==
    \/ InitRunning([e \in {"e1"} |-> WatchedEntry(e, CONF_WATCHED_TYPE_RANDOM)],
                   <<"e1">>, {"a1", "a2", "a4"}, MaxTime,
                   [e \in {"e1"} |-> DefaultSettings])
    \/ \E type \in SourceTypes :
          InitRunning([e \in {"e1"} |-> WatchedEntry(e, type)],
                      <<"e1">>,
                      IF type = CONF_WATCHED_TYPE_RANDOM THEN {"a1", "a2", "a3"}
                      ELSE {"a1", "a3"},
                      MaxTime,
                      [e \in {"e1"} |-> DefaultSettings])

NextPool ==
    \/ TickStart
    \/ \E t \in Tasks : RefreshReturn(t)
    \/ \E t \in Tasks : RefreshEmptyStats(t)
    \/ \E t \in Tasks : RefreshRaise(t)
    \/ \E t \in Tasks : DownloadReturn(t)
    \/ \E t \in Tasks : Wake(t)
    \/ \E t \in Tasks : InfoReturn(t)
    \/ \E t \in Tasks : InfoRaise(t)
    \/ \E e \in DOMAIN entries, t \in UserTasks : SelectOrientation(t, e)

SpecPool == InitPool /\ [][NextPool]_vars

-----------------------------------------------------------------------------
(* Spec: one watched album whose image is overdue; the three select        *)
(* entities and the tick                                                   *)

Init ==
    InitRunning([e \in {"e1"} |-> WatchedEntry(e, CONF_WATCHED_TYPE_ALBUM)],
                <<"e1">>, {"a1"}, MaxTime,
                [e \in {"e1"} |-> DefaultSettings])

Next ==
    \/ TickStart
    \/ \E t \in Tasks : RefreshReturn(t)
    \/ \E t \in Tasks : RefreshRaise(t)
    \/ \E t \in Tasks : DownloadReturn(t)
    \/ \E t \in Tasks : Wake(t)
    \/ \E t \in Tasks : InfoReturn(t)
    \/ \E t \in Tasks : InfoRaise(t)
    \/ \E e \in DOMAIN entries : SelectInterval(e)
    \/ \E e \in DOMAIN entries, t \in UserTasks : SelectThumbnailsMode(t, e)
    \/ \E e \in DOMAIN entries, t \in UserTasks : SelectOrientation(t, e)

Spec == Init /\ [][Next]_vars

-----------------------------------------------------------------------------
(* SpecRetry: one watched entry of any source type with any restored       *)
(* thumbnail mode and orientation, a server with a portrait and a          *)
(* landscape image; the user's selects start cycles.  FairRetry adds what  *)
(* the event loop and the remote's timeouts guarantee: a pending answer    *)
(* arrives, a sleeping coroutine wakes up.                                 *)

InitRetry ==
    \E type \in SourceTypes, mode \in SETTING_THUMBNAILS_MODE_OPTIONS,
       orientation \in SETTING_ORIENTATION_OPTIONS :
        InitRunning([e \in {"e1"} |-> WatchedEntry(e, type)],
                    <<"e1">>, {"a1", "a2"}, MaxTime,
                    [e \in {"e1"} |->
                        [DefaultSettings EXCEPT !.thumbnail = mode,
                                                !.orientation = orientation]])

NextRetry ==
    \/ RefreshReturn("user")
    \/ RefreshEmptyStats("user")
    \/ RefreshRaise("user")
    \/ DownloadReturn("user")
    \/ Wake("user")
    \/ InfoReturn("user")
    \/ InfoRaise("user")
    \/ \E e \in DOMAIN entries : SelectThumbnailsMode("user", e)
    \/ \E e \in DOMAIN entries : SelectOrientation("user", e)

SpecRetry == InitRetry /\ [][NextRetry]_vars

CycleSteps(t) ==
    \/ RefreshReturn(t)
    \/ RefreshEmptyStats(t)
    \/ RefreshRaise(t)
    \/ DownloadReturn(t)
    \/ Wake(t)
    \/ InfoReturn(t)
    \/ InfoRaise(t)

FairRetry == SpecRetry /\ WF_vars(CycleSteps("user"))

-----------------------------------------------------------------------------
(* SpecRestore: start-up after a restart.  The coordinator is constructed, *)
(* the image platform and the select platform register their entities in   *)
(* any order, each select entity is activated with whatever the state      *)
(* store kept for it, and the user changes options of activated selects.   *)

InitRestore ==
    InitWith([e \in {"e1"} |-> WatchedEntry(e, CONF_WATCHED_TYPE_ALBUM)], {"a1"})

NextRestore ==
    \/ \E e \in DOMAIN entries : RegisterImage(e)
    \/ \E e \in DOMAIN entries : RegisterSelects(e)
    \/ \E e \in DOMAIN entries : AddedInterval(e)
    \/ \E e \in DOMAIN entries : AddedThumbnailsMode("user", e)
    \/ \E e \in DOMAIN entries : AddedOrientation("user", e)
    \/ \E e \in DOMAIN entries : SelectInterval(e)
    \/ \E e \in DOMAIN entries : SelectThumbnailsMode("user", e)
    \/ \E e \in DOMAIN entries : SelectOrientation("user", e)
    \/ RefreshReturn("user")
    \/ RefreshRaise("user")
    \/ DownloadReturn("user")
    \/ Wake("user")
    \/ InfoReturn("user")
    \/ InfoRaise("user")

SpecRestore == InitRestore /\ [][NextRestore]_vars

-----------------------------------------------------------------------------
(* SpecSnap: the two platform setups call update_albums and update_persons *)
(* at any time, the remote answers with any list or raises, time passes.   *)

InitSnap ==
    InitWith([e \in {"e1"} |-> WatchedEntry(e, CONF_WATCHED_TYPE_ALBUM)], {"a1"})

NextSnap ==
    \/ Advance
    \/ \E c \in Callers : CallUpdateAlbums(c)
    \/ \E c \in Callers : CallUpdatePersons(c)
    \/ \E c \in Callers : FetchReturn(c)
    \/ \E c \in Callers : FetchRaise(c)

SpecSnap == InitSnap /\ [][NextSnap]_vars

-----------------------------------------------------------------------------
(* SpecDevices: the device records under any sequence of update_device and *)
(* remove_device calls, for two watched entries of the same album added at *)
(* different times.                                                        *)

MaxCreated == 2

AlbumEntry(id, created) ==
    [id |-> id, name |-> "name", type |-> CONF_WATCHED_TYPE_ALBUM, created |-> created]

(* the keyword combinations of a call: for the first entry each keyword is *)
(* None or a value, for the others the calls are the program's own, with   *)
(* one keyword                                                             *)
ArgChoices(e) ==
    IF e = "e1"
    THEN [image : {NoArg, e}, select : {NoArg, "set"}, interval : {NoArg, "fast"},
          thumbnail : {NoArg, SETTING_THUMBNAILS_MODE_ORIGINAL},
          orientation : {NoArg, SETTING_ORIENTATION_PORTRAIT}] \ {NoArgs}
    ELSE {[NoArgs EXCEPT !.image = e], [NoArgs EXCEPT !.interval = "fast"]}

(* the identifiers a device of the registry can carry: the one of a        *)
(* watched entry, with or without one of another integration, or only the  *)
(* one of another integration                                              *)
ForeignIdentifier == <<"other", <<"a">>, CONF_WATCHED_TYPE_ALBUM, 1>>

IdentifierSets ==
    {{ForeignIdentifier}}
      \cup {{DeviceIdentifier(entries[e])} : e \in DOMAIN entries}
      \cup {{ForeignIdentifier, DeviceIdentifier(entries[e])} : e \in DOMAIN entries}

InitDevices ==
    InitWith([e \in {"e1", "e2"} |->
                 AlbumEntry(<<"a">>, IF e = "e1" THEN 1 ELSE MaxCreated)], {"a1"})

NextDevices ==
    \/ \E e \in DOMAIN entries : \E args \in ArgChoices(e) : UpdateDevice(e, args)
    \/ \E id \in {<<"a">>, <<"u">>}, created \in 1..(MaxCreated + 1) : RemoveDevice(id, created)
    \/ \E e \in DOMAIN entries : GetSettings(e)
    \/ \E identifiers \in IdentifierSets : RemoveConfigEntryDevice(identifiers)

SpecDevices == InitDevices /\ [][NextDevices]_vars

-----------------------------------------------------------------------------
(* SpecRemoval: two watched entries of the same album, set up and overdue; *)
(* the tick runs, the user removes devices and, as long as the entities of *)
(* a removed device are still there, changes the interval in its select.   *)

InitRemoval ==
    InitRunning([e \in {"e1", "e2"} |->
                    AlbumEntry(<<"a">>, IF e = "e1" THEN 1 ELSE MaxCreated)],
                <<"e1", "e2">>, {"a1"}, MaxTime,
                [e \in {"e1", "e2"} |-> DefaultSettings])

NextRemoval ==
    \/ TickStart
    \/ RefreshReturn("tick")
    \/ RefreshRaise("tick")
    \/ DownloadReturn("tick")
    \/ Wake("tick")
    \/ InfoReturn("tick")
    \/ InfoRaise("tick")
    \/ \E e \in DOMAIN entries : SelectInterval(e)
    \/ \E e \in DOMAIN entries : RemoveConfigEntryDevice({DeviceIdentifier(entries[e])})

SpecRemoval == InitRemoval /\ [][NextRemoval]_vars

-----------------------------------------------------------------------------
(* SpecRefresh: one watched entry of any source type on a server whose     *)
(* assets have usable dimensions (a1, a2), zero dimensions (a3), no        *)
(* exifInfo block (a5) or a block without width (a6); the user's           *)
(* orientation select starts cycles.                                       *)

InitRefresh ==
    \E type \in SourceTypes :
        InitRunning([e \in {"e1"} |-> WatchedEntry(e, type)],
                    <<"e1">>, {"a1", "a2", "a3", "a5", "a6"}, MaxTime,
                    [e \in {"e1"} |-> DefaultSettings])

NextRefresh ==
    \/ \E e \in DOMAIN entries : SelectOrientation("user", e)
    \/ RefreshReturn("user")
    \/ RefreshEmptyStats("user")
    \/ RefreshRaise("user")
    \/ DownloadReturn("user")
    \/ Wake("user")
    \/ InfoReturn("user")
    \/ InfoRaise("user")

SpecRefresh == InitRefresh /\ [][NextRefresh]_vars

-----------------------------------------------------------------------------
(* SpecCache: one watched entry of any source type, a server with a        *)
(* portrait and a landscape image (for the random pool a second portrait   *)
(* image, so that a pool can give more than one candidate); time passes    *)
(* and the user's orientation select starts cycles at any time.            *)

InitCache ==
    \E type \in SourceTypes :
        InitRunning([e \in {"e1"} |-> WatchedEntry(e, type)],
                    <<"e1">>,
                    IF type = CONF_WATCHED_TYPE_RANDOM THEN {"a1", "a2", "a4"}
                    ELSE {"a1", "a2"},
                    0,
                    [e \in {"e1"} |-> DefaultSettings])

NextCache ==
    \/ Advance
    \/ \E e \in DOMAIN entries : SelectOrientation("user", e)
    \/ RefreshReturn("user")
    \/ RefreshEmptyStats("user")
    \/ RefreshRaise("user")
    \/ DownloadReturn("user")
    \/ Wake("user")
    \/ InfoReturn("user")
    \/ InfoRaise("user")

SpecCache == InitCache /\ [][NextCache]_vars

-----------------------------------------------------------------------------
(* SpecKeys: get_device_id on two watched entries with any ids (which may  *)
(* hold the separator and digits) and any times of creation.               *)

EntryIds == {<<"a">>, <<"a", "1">>, <<"a", "-", "1">>, <<"a", "-", "1", ".", "0">>}
EntryCreated == {1, 2, 12, MaxCreated * 10 + 1}

InitKeys ==
    \E id1 \in EntryIds, id2 \in EntryIds, c1 \in EntryCreated, c2 \in EntryCreated :
        InitWith([e \in {"e1", "e2"} |->
                     IF e = "e1" THEN AlbumEntry(id1, c1) ELSE AlbumEntry(id2, c2)], {"a1"})

NextKeys == GetDeviceIds("e1", "e2")

SpecKeys == InitKeys /\ [][NextKeys]_vars

-----------------------------------------------------------------------------
(* SpecImage: one watched entry of any source type with any restored       *)
(* orientation; the frontend asks for the image and the user changes the   *)
(* orientation; the remote answers with any list, with bytes or without,   *)
(* or raises.                                                              *)

InitImage ==
    \E type \in SourceTypes, orientation \in SETTING_ORIENTATION_OPTIONS :
        InitRunning([e \in {"e1"} |-> WatchedEntry(e, type)],
                    <<"e1">>, {"a1", "a2"}, MaxTime,
                    [e \in {"e1"} |-> [DefaultSettings EXCEPT !.orientation = orientation]])

NextImage ==
    \/ \E e \in DOMAIN entries : AsyncImage("user", e)
    \/ \E e \in DOMAIN entries : SelectOrientation("user", e)
    \/ RefreshReturn("user")
    \/ RefreshEmptyStats("user")
    \/ RefreshRaise("user")
    \/ DownloadReturn("user")
    \/ Wake("user")
    \/ InfoReturn("user")
    \/ InfoRaise("user")

SpecImage == InitImage /\ [][NextImage]_vars

-----------------------------------------------------------------------------
(* SpecClassify: _is_portrait on any dimensions up to MaxDim and any       *)
(* orientation value the remote may send: a code, a code written in        *)
(* another way, text that is no integer, nothing.                          *)

MaxDim == 3

RawOrientations ==
    {"0", "1", "2", "3", "4", "5", "6", "7", "8", "10", "06", " 6 ", "-1",
     "", "6.0", "abc", "Rotate 90 CW", NoArg}

InitClassify ==
    InitWith([e \in {"e1"} |-> WatchedEntry(e, CONF_WATCHED_TYPE_ALBUM)], {"a1"})

NextClassify ==
    \E width \in 0..MaxDim, height \in 0..MaxDim, orientation \in RawOrientations :
        Classify(width, height, orientation)

SpecClassify == InitClassify /\ [][NextClassify]_vars

-----------------------------------------------------------------------------
(* SpecSetup: Home Assistant sets up and unloads three config entries; the *)
(* photo server accepts the API key, rejects it, or cannot be reached.     *)

InitSetup ==
    /\ NewCoordinator([e \in {"e1"} |-> WatchedEntry(e, CONF_WATCHED_TYPE_ALBUM)], {"a1"})
    /\ hass = NewHass(ListOf([e \in {"e1"} |-> WatchedEntry(e, CONF_WATCHED_TYPE_ALBUM)]))

NextSetup ==
    \/ \E c \in ConfigEntries : SetupEntry(c)
    \/ \E c \in ConfigEntries : AuthenticateReturn(c)
    \/ \E c \in ConfigEntries : AuthenticateRaise(c)
    \/ \E c \in ConfigEntries : ForwardReturn(c)
    \/ \E c \in ConfigEntries : UnloadEntry(c)

SpecSetup == InitSetup /\ [][NextSetup]_vars

-----------------------------------------------------------------------------
(* Properties of the tick *)

(* number of calls of async_update a pass has made for key k *)
RECURSIVE Count(_, _)
Count(s, k) == IF s = <<>> THEN 0 ELSE (IF Head(s) = k THEN 1 ELSE 0) + Count(Tail(s), k)

(* the step begins a pass *)
BeginsPass == tick'.pass # tick.pass

(* the records whose turn in the for loop comes in this step *)
EvaluatedInStep(i) ==
    /\ tick' # tick
    /\ i \in DOMAIN devOrder
    /\ i >= (IF BeginsPass THEN 1 ELSE tick.idx + 1)
    /\ i <= tick'.idx
    /\ devices[devOrder[i]].image # NoImage

(* C1: when the for loop of a pass comes to a record, async_update is      *)
(* called for it, once, if and only if its interval is a key of the        *)
(* interval table and the time since the image's last update is strictly   *)
(* greater than the seconds of that key; the call passes the record's      *)
(* current thumbnail mode and orientation.                                 *)
C1_TickRefreshesWhenDue ==
    [][\A i \in DOMAIN devOrder :
          EvaluatedInStep(i) =>
            LET k == devOrder[i]
                rec == devices[k]
                elapsed == now - img[rec.image].last_updated
                before == IF BeginsPass THEN 0 ELSE Count(tick.refreshed, k)
                known == rec.interval \in DOMAIN SETTING_INTERVAL_MAP
            IN /\ Count(tick'.refreshed, k) - before =
                    IF known /\ elapsed > SETTING_INTERVAL_MAP[rec.interval] THEN 1 ELSE 0
               /\ (tick'.pc = "cycle" /\ tick'.idx = i) =>
                    /\ task'["tick"].ent = rec.image
                    /\ task'["tick"].mode = rec.thumbnail
                    /\ task'["tick"].orient = rec.orientation]_vars

(* a pass is suspended in the refresh of a record whose image was updated  *)
(* one unit longer ago than its interval allows, with settings that are    *)
(* not the defaults                                                        *)
C1_Witness ==
    /\ tick.pc = "cycle"
    /\ LET rec == devices[devOrder[tick.idx]]
       IN /\ rec.interval \in DOMAIN SETTING_INTERVAL_MAP
          /\ now - img[rec.image].last_updated = SETTING_INTERVAL_MAP[rec.interval] + 1
          /\ rec.thumbnail # SETTING_THUMBNAILS_MODE_DEFAULT
          /\ rec.orientation # SETTING_ORIENTATION_DEFAULT
          /\ Count(tick.refreshed, devOrder[tick.idx]) = 1

(* C2: an error raised by one record's refresh does not keep the pass from *)
(* the records after it: when a pass has ended by an exception, no record  *)
(* that was due at that moment has been left unevaluated.                  *)
C2_FailureDoesNotBlockOthers ==
    tick.outcome = "failed" => tick.unreached = {}

-----------------------------------------------------------------------------
(* Properties of the select-and-download cycle and of the candidate lists *)

ActiveOn(e) == {t \in Tasks : task[t].pc # "idle" /\ task[t].ent = e}

HasDuplicates(s) == \E i, j \in DOMAIN s : i # j /\ s[i] = s[j]

(* C3: at most one select-and-download cycle is in progress for a watched  *)
(* entry at any time.                                                      *)
C3_OneCyclePerEntry ==
    \A e \in DOMAIN entries : Cardinality(ActiveOn(e)) <= 1

(* C4: in thumbnail-with-original-fallback mode an iteration whose         *)
(* thumbnail download came back empty goes on to download the original of  *)
(* the same asset: it does not give the asset up before the original was   *)
(* asked for, and the bytes it keeps after an empty thumbnail are the      *)
(* original's.                                                             *)
C4_FallbackToOriginal ==
    \A t \in Tasks :
        task[t].mode = SETTING_THUMBNAILS_MODE_THUMBNAIL_BACKUP =>
            /\ task[t].pc = "sleep" => "original" \in task[t].calls
            /\ task[t].pc \in {"sleep", "info"} => "thumbnail" \in task[t].calls

(* C5: a cycle whose downloads all come back empty ends: a cycle that is   *)
(* waiting for a download or sleeping after an empty one eventually        *)
(* returns, unless a download gives bytes after all.                       *)
C5_EmptyDownloadsTerminate ==
    \A t \in Tasks :
        (task[t].pc \in {"download", "sleep"}) ~> (task[t].pc \in {"idle", "info"})

(* C6: selection yields an id whenever the list matching the requested     *)
(* orientation is not empty after the refresh attempt: a cycle never ends  *)
(* with "no image" although that list had a candidate.                     *)
C6_SelectionYieldsFromMatchingList ==
    \A t \in Tasks : task[t].result = "noimage" => ~task[t].hadCandidates

(* C7: between two assignments of the random pool's lists, selection never *)
(* returns the same asset id twice, whatever the orientations requested.   *)
C7_NoRepeatWithinPool ==
    \A e \in DOMAIN entries : IsRandom(e) => ~HasDuplicates(pool[e])

(* two ids have been taken from one pool and the pool is not used up *)
C7_Witness ==
    \E e \in DOMAIN entries :
        /\ IsRandom(e)
        /\ Len(pool[e]) >= 2
        /\ img[e].all # <<>>

(* C8: every id of the portrait list and of the landscape list of an image *)
(* entity is in its unfiltered list.                                       *)
C8_PartitionsWithinAll ==
    \A e \in DOMAIN entries :
        Range(img[e].portrait) \cup Range(img[e].landscape) \subseteq Range(img[e].all)

(* a random pool with ids taken from it and ids left in all three lists,   *)
(* while two cycles are in progress on the entity                          *)
C8_Witness ==
    \E e \in DOMAIN entries :
        /\ IsRandom(e)
        /\ pool[e] # <<>>
        /\ ~AnyListEmpty(img[e])
        /\ Cardinality(ActiveOn(e)) = 2

-----------------------------------------------------------------------------
(* Properties of the setters *)

(* the step runs a cycle of the user's task on the image entity of e with  *)
(* the settings the record of e holds after the step                       *)
RunsCycleWithStored(e) ==
    LET rec == devices'[DeviceKey(e)]
    IN /\ task["user"].pc = "idle"
       /\ \/ /\ task'["user"].pc # "idle"
             /\ task'["user"].ent = rec.image
             /\ task'["user"].mode = rec.thumbnail
             /\ task'["user"].orient = rec.orientation
          \/ /\ task'["user"].pc = "idle"
             /\ task'["user"].result = "noimage"
             /\ Partition(img[rec.image], rec.orientation) = <<>>

(* C9: a step that changes the stored thumbnail mode or the stored         *)
(* orientation of an entry leaves its other settings as they are and runs, *)
(* in the same step, one cycle on the entry's image entity with the stored *)
(* values; a step that changes the stored interval starts no cycle and     *)
(* leaves image bytes, last-updated timestamp, tasks and tick unchanged.   *)
C9_SettersRefreshOrNot ==
    [][\A e \in DOMAIN entries :
          LET k == DeviceKey(e)
          IN (k \in DOMAIN devices /\ k \in DOMAIN devices' /\ devices[k].image # NoImage) =>
              /\ devices'[k].thumbnail # devices[k].thumbnail =>
                    /\ devices'[k].orientation = devices[k].orientation
                    /\ devices'[k].interval = devices[k].interval
                    /\ RunsCycleWithStored(e)
              /\ devices'[k].orientation # devices[k].orientation =>
                    /\ devices'[k].thumbnail = devices[k].thumbnail
                    /\ devices'[k].interval = devices[k].interval
                    /\ RunsCycleWithStored(e)
              /\ devices'[k].interval # devices[k].interval =>
                    /\ devices'[k].thumbnail = devices[k].thumbnail
                    /\ devices'[k].orientation = devices[k].orientation
                    /\ img' = img /\ task' = task /\ tick' = tick /\ pool' = pool]_vars

(* the user's task is in a cycle with a thumbnail mode and an orientation  *)
(* that were both changed, and the interval was changed as well            *)
C9_Witness ==
    \E e \in DOMAIN entries :
        LET rec == devices[DeviceKey(e)]
        IN /\ task["user"].pc # "idle"
           /\ task["user"].ent = e
           /\ task["user"].mode = rec.thumbnail
           /\ task["user"].orient = rec.orientation
           /\ rec.thumbnail # SETTING_THUMBNAILS_MODE_DEFAULT
           /\ rec.orientation # SETTING_ORIENTATION_DEFAULT
           /\ rec.interval # SETTING_INTERVAL_DEFAULT_OPTION

-----------------------------------------------------------------------------
(* Properties of the activation of the select entities *)

OptionsOf(s) ==
    IF s = "interval" THEN SETTING_INTERVAL_OPTIONS
    ELSE IF s = "thumbnail" THEN SETTING_THUMBNAILS_MODE_OPTIONS
    ELSE SETTING_ORIENTATION_OPTIONS

DefaultOf(s) == DefaultSettings[s]

(* C10: the step that activates a select entity stores the persisted value *)
(* if it is one of the setting's options and the setting's default if      *)
(* there is none or it is no option; the stored value of an activated      *)
(* setting is always one of its options.                                   *)
C10_ActivationRestoresOrDefaults ==
    [][\A e \in DOMAIN entries : \A s \in Settings :
          LET k == DeviceKey(e)
              persisted == sel'[e].restored[s]
          IN /\ s \in sel'[e].added =>
                   /\ k \in DOMAIN devices'
                   /\ devices'[k][s] \in OptionsOf(s)
             /\ (s \notin sel[e].added /\ s \in sel'[e].added) =>
                   devices'[k][s] = IF persisted \in OptionsOf(s) THEN persisted
                                    ELSE DefaultOf(s)]_vars

(* all three selects are activated: one had a persisted value that is no   *)
(* option (any more) and holds its default, one had a persisted option     *)
(* other than the default and holds it, one had nothing persisted          *)
C10_Witness ==
    \E e \in DOMAIN entries :
        LET rec == devices[DeviceKey(e)]
            r == sel[e].restored
        IN /\ sel[e].added = Settings
           /\ r["thumbnail"] = "stale"
           /\ rec.thumbnail = SETTING_THUMBNAILS_MODE_DEFAULT
           /\ r["orientation"] = SETTING_ORIENTATION_PORTRAIT
           /\ rec.orientation = SETTING_ORIENTATION_PORTRAIT
           /\ r["interval"] = NoState
           /\ rec.interval = SETTING_INTERVAL_DEFAULT_OPTION

-----------------------------------------------------------------------------
(* Properties of the album and person snapshots *)

Other(kind) == IF kind = "albums" THEN "persons" ELSE "albums"

(* the step is a call of update_albums / update_persons by c *)
CallsUpdate(c) == snap.pending[c].pc = "idle" /\ snap'.pending[c] # snap.pending[c]

(* the step is the return of c's remote call *)
FetchReturns(c) == snap.pending[c].pc = "fetch" /\ snap'.pending[c].result = "fetched"

(* the step is the failure of c's remote call *)
FetchFails(c) == snap.pending[c].pc = "fetch" /\ snap'.pending[c].result = "raised"

SnapshotsUnchanged ==
    /\ snap'.albums = snap.albums
    /\ snap'.persons = snap.persons
    /\ snap'.album_last_update = snap.album_last_update
    /\ snap'.persons_last_update = snap.persons_last_update

(* C14: a refresh call returns at once, with no remote call and nothing    *)
(* changed, when its snapshot is not empty and its own last refresh is     *)
(* younger than the interval; otherwise it calls the remote, and the       *)
(* answer sets its own timestamp to the time of the answer; no step of a   *)
(* refresh changes the other snapshot or the other timestamp.              *)
C14_SnapshotRefresh ==
    [][\A c \in Callers :
          /\ CallsUpdate(c) =>
                LET kind == snap'.pending[c].kind
                    young == now - snap[Stamp(kind)] < ALBUM_REFRESH_INTERVAL
                IN /\ SnapshotsUnchanged
                   /\ IF DOMAIN snap[kind] # {} /\ young
                      THEN snap'.pending[c].pc = "idle" /\ snap'.pending[c].result = "noop"
                      ELSE snap'.pending[c].pc = "fetch"
          /\ FetchReturns(c) =>
                LET kind == snap.pending[c].kind
                IN /\ snap'[Stamp(kind)] = now
                   /\ snap'[Other(kind)] = snap[Other(kind)]
                   /\ snap'[Stamp(Other(kind))] = snap[Stamp(Other(kind))]]_vars

(* an album refresh was answered while the person snapshot, fetched        *)
(* earlier, is older; a later album call inside the interval was a no-op   *)
C14_Witness ==
    /\ DOMAIN snap.albums # {}
    /\ DOMAIN snap.persons # {}
    /\ snap.album_last_update > snap.persons_last_update
    /\ snap.persons_last_update > Epoch
    /\ \E c \in Callers :
          /\ snap.pending[c].kind = "albums"
          /\ snap.pending[c].result = "noop"
          /\ now > snap.album_last_update

(* C15: when the remote call of a refresh raises, the call ends with the   *)
(* exception at its caller, no second remote call is made for it, and both *)
(* snapshots and both timestamps are as before; unless another refresh of  *)
(* the snapshot was answered since the call began, the next call calls the *)
(* remote again.                                                           *)
C15_FailedRefreshChangesNothing ==
    [][\A c \in Callers :
          FetchFails(c) =>
            LET kind == snap.pending[c].kind
            IN /\ SnapshotsUnchanged
               /\ snap'.pending[c].pc = "idle"
               /\ snap.pending[c].seen = <<snap[kind], snap[Stamp(kind)]>>
                     => ~IsFresh(snap', kind, now')]_vars

(* a refresh of a snapshot that had been fetched before, and had become    *)
(* stale, has failed: the snapshot is still the old one                    *)
C15_Witness ==
    \E c \in Callers :
        LET kind == snap.pending[c].kind
        IN /\ snap.pending[c].result = "raised"
           /\ DOMAIN snap[kind] # {}
           /\ snap[Stamp(kind)] > Epoch
           /\ snap.pending[c].seen = <<snap[kind], snap[Stamp(kind)]>>
           /\ now - snap[Stamp(kind)] >= ALBUM_REFRESH_INTERVAL

-----------------------------------------------------------------------------
(* Properties of the device records *)

FirstGiven(args) ==
    IF args.image # NoArg THEN "image"
    ELSE IF args.select # NoArg THEN "select"
    ELSE IF args.interval # NoArg THEN "interval"
    ELSE IF args.thumbnail # NoArg THEN "thumbnail"
    ELSE "orientation"

(* C11: update_device creates the record of the entry's key if there is    *)
(* none, with the entry's id, name, type and created, the three default    *)
(* settings and no entity reference; it then applies the first argument    *)
(* that is not None, in the order image, select, interval, thumbnail,      *)
(* orientation, and nothing else: the other fields of the record and all   *)
(* other records are as before.                                            *)
C11_UpsertAppliesFirstArgument ==
    [][call'.op = "update_device" =>
          LET e == call'.args[1]
              args == call'.args[2]
              k == DeviceKey(e)
              base == IF k \in DOMAIN devices THEN devices[k]
                      ELSE [entry |-> e,
                            id |-> entries[e].id, name |-> entries[e].name,
                            type |-> entries[e].type, created |-> entries[e].created,
                            interval |-> SETTING_INTERVAL_DEFAULT_OPTION,
                            thumbnail |-> SETTING_THUMBNAILS_MODE_DEFAULT,
                            orientation |-> SETTING_ORIENTATION_DEFAULT,
                            image |-> NoImage, selects |-> FALSE]
              first == FirstGiven(args)
              field == IF first = "select" THEN "selects" ELSE first
              value == IF first = "select" THEN TRUE ELSE args[first]
          IN /\ DOMAIN devices' = DOMAIN devices \cup {k}
             /\ \A x \in DOMAIN devices : x # k => devices'[x] = devices[x]
             /\ devices'[k][field] = value
             /\ \A f \in DOMAIN base : f # field => devices'[k][f] = base[f]]_vars

(* the record of an entry was created by a call that gave an interval and  *)
(* an orientation: it holds the interval, and the default orientation      *)
C11_Witness ==
    /\ call.op = "update_device"
    /\ LET e == call.args[1]
           args == call.args[2]
       IN /\ args.image = NoArg /\ args.select = NoArg /\ args.thumbnail = NoArg
          /\ args.interval = "fast" /\ args.orientation = SETTING_ORIENTATION_PORTRAIT
          /\ DOMAIN devices = {DeviceKey(e)}
          /\ devices[DeviceKey(e)].interval = "fast"
          /\ devices[DeviceKey(e)].orientation = SETTING_ORIENTATION_DEFAULT
          /\ devices[DeviceKey(e)].image = NoImage

(* C12: remove_device(id, created) deletes the record registered for that  *)
(* id and created and no other; when there is no such record it changes    *)
(* nothing.                                                                *)
C12_RemoveDeletesExactlyOne ==
    [][call'.op = "remove_device" =>
          LET id == call'.args[1]
              created == call'.args[2]
              Hit(k) == devices[k].id = id /\ devices[k].created = created
          IN /\ DOMAIN devices' = {k \in DOMAIN devices : ~Hit(k)}
             /\ \A k \in DOMAIN devices' : devices'[k] = devices[k]
             /\ devOrder' = SelectSeq(devOrder, LAMBDA k : ~Hit(k))
             /\ (~\E k \in DOMAIN devices : Hit(k)) => devices' = devices]_vars

(* the record of one entry was popped, the record of the other entry of    *)
(* the same album is there with its settings                               *)
C12_Witness ==
    /\ call.op = "remove_device"
    /\ call.result = <<TRUE>>
    /\ \E k \in DOMAIN devices :
          /\ devices[k].id = call.args[1]
          /\ devices[k].created # call.args[2]
          /\ devices[k].image # NoImage
          /\ devices[k].interval = "fast"

(* C13: the key is a function of (id, created): computed again, and by     *)
(* the other form of the call, it is the same; two entries have the same   *)
(* key exactly when they have the same id and the same created.            *)
C13_KeyStableAndDistinct ==
    call.op = "get_device_id" =>
        LET e1 == call.args[1]
            e2 == call.args[2]
        IN /\ call.result[1] = call.result[3]
           /\ (call.result[1] = call.result[2]) <=>
                  (entries[e1].id = entries[e2].id /\ entries[e1].created = entries[e2].created)

(* two entries whose ids and times of creation differ and read the same    *)
(* once the separator is left out                                          *)
C13_Witness ==
    /\ call.op = "get_device_id"
    /\ entries["e1"].id = <<"a">> /\ entries["e1"].created = 12
    /\ entries["e2"].id = <<"a", "1">> /\ entries["e2"].created = 2
    /\ call.result[1] # call.result[2]

-----------------------------------------------------------------------------
(* Properties of async_image and of a selection without candidates *)

(* the step is a call of async_image by task t *)
CallsImage(t) == task[t].pc = "idle" /\ task'[t] # task[t] /\ task'[t].op = "image"

(* C16: async_image on an entity that holds bytes returns them in the same *)
(* step, with no cycle and no remote call; on an entity that holds none it *)
(* runs one cycle with the thumbnail mode and the orientation stored for   *)
(* the entry, and returns the bytes the entity holds when the cycle has    *)
(* returned.                                                               *)
C16_ImageReturnsCachedOrLoads ==
    [][\A t \in UserTasks :
          /\ CallsImage(t) =>
                LET e == task'[t].ent
                    rec == devices[DeviceKey(e)]
                IN IF img[e].bytes # NoBytes
                   THEN /\ task'[t].pc = "idle"
                        /\ task'[t].returned = img[e].bytes
                        /\ img' = img
                   ELSE \/ /\ task'[t].pc # "idle"
                           /\ task'[t].mode = rec.thumbnail
                           /\ task'[t].orient = rec.orientation
                        \/ /\ task'[t].pc = "idle"
                           /\ task'[t].result = "noimage"
                           /\ \/ Partition(img[e], rec.orientation) = <<>>
                              \/ IsRandom(e) /\ AnyListEmpty(img[e])
                           /\ task'[t].returned = NoBytes
          /\ (task[t].op = "image" /\ task[t].pc # "idle" /\ task'[t].pc = "idle") =>
                /\ task'[t].op = "image"
                /\ task'[t].result # "error" => task'[t].returned = img'[task[t].ent].bytes
                /\ task'[t].result = "error" => task'[t].returned = NotReturned]_vars

(* async_image has returned the bytes of a download its own cycle made,    *)
(* with settings that are not the defaults                                 *)
C16_Witness ==
    \E t \in UserTasks :
        /\ task[t].op = "image"
        /\ task[t].result = "ok"
        /\ task[t].returned # NoBytes
        /\ task[t].returned = img[task[t].ent].bytes
        /\ devices[DeviceKey(task[t].ent)].orientation # SETTING_ORIENTATION_DEFAULT

(* the step of task t runs the selection (it is a call, the answer of a    *)
(* refresh, or the wake-up after an empty download) and the list of the    *)
(* requested orientation is empty after the refresh attempt, no id having  *)
(* been taken from it in the step                                          *)
SelectsWithoutCandidates(t) ==
    LET e == task'[t].ent
        orientation == IF task[t].pc = "idle" THEN devices'[DeviceKey(e)].orientation
                       ELSE task[t].orient
    IN /\ task'[t] # task[t]
       /\ \/ task[t].pc \in {"idle", "sleep"}
          \/ task[t].pc = "refresh" /\ ~RefreshRaise(t)
       /\ task'[t].pc # "refresh"
       /\ ~(task[t].pc = "idle" /\ task'[t].result = "cached")
       /\ Partition(img'[e], orientation) = <<>>
       /\ task'[t].asset = NoAsset

(* C17: when the requested list has no candidate after the refresh         *)
(* attempt, the cycle ends in that step, without raising and without       *)
(* another selection; bytes, metadata and last-updated timestamp of the    *)
(* entity are as before, and async_image returns the bytes the entity had: *)
(* none, if it never had an image.                                         *)
C17_NoCandidatesEndsCycle ==
    [][\A t \in UserTasks :
          SelectsWithoutCandidates(t) =>
            LET e == task'[t].ent
            IN /\ task'[t].pc = "idle"
               /\ task'[t].result = "noimage"
               /\ img'[e].bytes = img[e].bytes
               /\ img'[e].attributes = img[e].attributes
               /\ img'[e].last_updated = img[e].last_updated
               /\ task'[t].op = "image" => task'[t].returned = img[e].bytes]_vars

(* the album was fetched and has no image: async_image returned no bytes   *)
C17_Witness ==
    \E t \in UserTasks :
        LET e == task[t].ent
        IN /\ task[t].op = "image"
           /\ task[t].result = "noimage"
           /\ task[t].returned = NoBytes
           /\ entries[e].type = CONF_WATCHED_TYPE_ALBUM
           /\ img[e].ids_last # NoTime
           /\ img[e].all = <<>>
           /\ img[e].bytes = NoBytes

-----------------------------------------------------------------------------
(* Properties of the classification *)

(* the orientation code an orientation value stands for: the integer it    *)
(* writes, 0 when it writes none                                           *)
OrientationCode(o) ==
    CASE o \in {"1"} -> 1 [] o \in {"2"} -> 2 [] o \in {"3"} -> 3 [] o \in {"4"} -> 4
      [] o \in {"5"} -> 5 [] o \in {"6", "06", " 6 "} -> 6 [] o \in {"7"} -> 7
      [] o \in {"8"} -> 8 [] o \in {"10"} -> 10 [] o \in {"-1"} -> 0 - 1
      [] OTHER -> 0

(* C18: an asset is classified portrait exactly when (orientation code <=  *)
(* 4 and width < height) or (orientation code > 4 and width > height); an  *)
(* orientation value that is no integer counts as code 0.                  *)
C18_ClassificationIsReferenceRule ==
    call.op = "_is_portrait" =>
        LET width == call.args[1]
            height == call.args[2]
            code == OrientationCode(call.args[3])
        IN call.result[1] <=>
             ((code <= 4 /\ width < height) \/ (code > 4 /\ width > height))

(* an asset taller than wide whose orientation is text that is no integer  *)
(* was classified portrait                                                 *)
C18_Witness ==
    /\ call.op = "_is_portrait"
    /\ call.args[1] < call.args[2]
    /\ call.args[3] = "Rotate 90 CW"
    /\ call.result = <<TRUE>>

(* C19 as stated: with orientation code <= 4 an asset is portrait when     *)
(* width > height and also when width < height; with code > 4 it is not    *)
(* portrait in both cases.                                                 *)
C19_PortraitBothWays ==
    call.op = "_is_portrait" =>
        LET width == call.args[1]
            height == call.args[2]
            code == OrientationCode(call.args[3])
        IN /\ (code <= 4 /\ width > height) => call.result[1]
           /\ (code <= 4 /\ width < height) => call.result[1]
           /\ (code > 4 /\ width > height) => ~call.result[1]
           /\ (code > 4 /\ width < height) => ~call.result[1]

(* C19 amended: with orientation code <= 4 an asset with width > height is *)
(* landscape (not portrait) and one with width < height is portrait; with  *)
(* code > 4 it is the other way round.                                     *)
C19_PortraitByShapeAndRotation ==
    call.op = "_is_portrait" =>
        LET width == call.args[1]
            height == call.args[2]
            code == OrientationCode(call.args[3])
        IN /\ (code <= 4 /\ width > height) => ~call.result[1]
           /\ (code <= 4 /\ width < height) => call.result[1]
           /\ (code > 4 /\ width > height) => call.result[1]
           /\ (code > 4 /\ width < height) => ~call.result[1]

(* an asset wider than tall and stored rotated (code 6) was classified     *)
(* portrait                                                                *)
C19_Witness ==
    /\ call.op = "_is_portrait"
    /\ call.args[1] > call.args[2]
    /\ call.args[3] = "6"
    /\ call.result = <<TRUE>>

-----------------------------------------------------------------------------
(* Properties of the stored image *)

(* C20: after a successful download the entity holds the downloaded bytes  *)
(* as current image, the asset's file name, EXIF block and local timestamp *)
(* (the localDateTime of the asset info) as display metadata, and a        *)
(* last-updated time equal to the time of the download.                    *)
C20_DownloadStoresImageAndMetadata ==
    [][\A t \in DOMAIN task :
          (task[t].pc = "info" /\ InfoReturn(t)) =>
              LET e == task[t].ent
                  info == AssetInfo(task[t].asset)
              IN /\ img'[e].bytes = task[t].bytes
                 /\ img'[e].attributes.media_filename = info["originalFileName"]
                 /\ img'[e].attributes.media_exifInfo = info["exifInfo"]
                 /\ img'[e].attributes.media_localdatetime = info["localDateTime"]
                 /\ img'[e].last_updated = now]_vars

-----------------------------------------------------------------------------
(* Properties of the setup *)

(* C21: when the authentication fails at setup, the setup ends with an     *)
(* error, no coordinator is stored in hass.data[DOMAIN] for the config     *)
(* entry and no platform is set up for it.                                 *)
C21_AuthFailureAbortsSetup ==
    [][\A c \in ConfigEntries :
          (hass.state[c] = "auth" /\ hass' = AfterAuthenticate(hass, c, FALSE)) =>
              /\ hass'.state[c] = "setup_error"
              /\ c \notin hass'.data
              /\ hass'.platforms[c] = {}]_vars

(* the setup of one config entry ended on a failed authentication, while  *)
(* another config entry is loaded and a third one failed to unload         *)
C21_Witness ==
    /\ hass.state["c1"] = "setup_error"
    /\ hass.error["c1"] = "InvalidAuth"
    /\ hass.state["c2"] = "loaded"
    /\ hass.state["c3"] = "failed_unload"

-----------------------------------------------------------------------------
(* Properties of the getters *)

(* C22: get_interval, get_thumbnail_mode and get_orientation return the    *)
(* value stored in the entry's device record, or the default of the        *)
(* setting when the entry has no record, and leave the device records as   *)
(* they are: none is created, none is modified.                            *)
C22_GettersReadOnly ==
    [][(call' # call /\ call'.op = "get") =>
          LET k == DeviceKey(call'.args[1])
          IN /\ devices' = devices
             /\ devOrder' = devOrder
             /\ call'.result =
                    IF k \in DOMAIN devices
                    THEN <<devices[k].interval, devices[k].thumbnail, devices[k].orientation>>
                    ELSE <<SETTING_INTERVAL_DEFAULT_OPTION, SETTING_THUMBNAILS_MODE_DEFAULT,
                           SETTING_ORIENTATION_DEFAULT>>]_vars

(* the getters answered with the defaults for an entry without a record   *)
(* while the other entry has one                                           *)
C22_Witness ==
    /\ call.op = "get"
    /\ DeviceKey(call.args[1]) \notin DOMAIN devices
    /\ devices # <<>>
    /\ call.result = <<SETTING_INTERVAL_DEFAULT_OPTION, SETTING_THUMBNAILS_MODE_DEFAULT,
                       SETTING_ORIENTATION_DEFAULT>>

-----------------------------------------------------------------------------
(* Properties of the tick and the set of device records *)

(* the for loop of the pass comes to position i in this step *)
ReachedInStep(i) ==
    /\ tick' # tick
    /\ devOrder' = devOrder
    /\ i \in DOMAIN devOrder
    /\ i >= (IF BeginsPass THEN 1 ELSE tick.idx + 1)
    /\ i <= tick'.idx

(* C23: a pass of the tick skips a device record whose image reference is  *)
(* unset: the pass does not end with an error at that record, it goes on   *)
(* to the records behind it.                                               *)
C23_ImagelessRecordSkipped ==
    [][\A i \in DOMAIN devOrder :
          (/\ ReachedInStep(i)
           /\ Len(devOrder) = tick'.used
           /\ devices[devOrder[i]].image = NoImage)
          => ~(tick'.outcome = "failed" /\ tick'.idx = i)]_vars

-----------------------------------------------------------------------------
(* Properties of the snapshots, continued *)

(* C24: when the remote answers a refresh of the album (person) snapshot   *)
(* with a list, the snapshot is replaced by it: its keys are exactly the   *)
(* ids of the list, an id the remote no longer returns is gone.            *)
C24_SnapshotReplacedWholesale ==
    [][\A c \in Callers : \A list \in RemoteLists :
          (FetchReturns(c) /\ snap' = StoreSnapshot(snap, c, list)) =>
              DOMAIN snap'[snap.pending[c].kind] = DOMAIN list]_vars

-----------------------------------------------------------------------------
(* Properties of the candidate refresh *)

(* the step is the answer of the remote to the list call of task t, with   *)
(* the list images                                                         *)
RefreshedWith(t, images) ==
    /\ task[t].pc = "refresh"
    /\ \E pick \in Picks : Commit(Resume(AfterRefresh(Cur, t, images, pick), t, pick), pick)

(* the asset has no exifInfo block, or no or a zero width or height *)
LacksDimensions(a) ==
    \/ "exifInfo" \notin DOMAIN AssetSummary[a]
    \/ "exifImageWidth" \notin DOMAIN AssetSummary[a].exifInfo
    \/ "exifImageHeight" \notin DOMAIN AssetSummary[a].exifInfo
    \/ AssetSummary[a].exifInfo.exifImageWidth = 0
    \/ AssetSummary[a].exifInfo.exifImageHeight = 0

(* C25: for every source type, a refresh whose list holds assets without   *)
(* usable dimensions does not raise; such an asset is in neither the       *)
(* portrait nor the landscape list, no asset is in both, and for album,    *)
(* person and favorites the unfiltered list is the remote's list and every *)
(* asset with usable dimensions is in the portrait or the landscape list.  *)
C25_RefreshToleratesMissingExif ==
    [][\A t \in Tasks :
        task[t].pc = "refresh" =>
        \A images \in Samples(Min(RANDOM_IMAGE_COUNT, Cardinality(remote))) :
          RefreshedWith(t, images) =>
            LET e == task[t].ent
                lacking == {a \in Range(images) : LacksDimensions(a)}
                split == Range(img'[e].portrait) \cup Range(img'[e].landscape)
            IN /\ task'[t].result # "error"
               /\ split \cap lacking = {}
               /\ Range(img'[e].portrait) \cap Range(img'[e].landscape) = {}
               /\ ~IsRandom(e) =>
                     /\ img'[e].all = images
                     /\ split = Range(images) \ lacking]_vars

-----------------------------------------------------------------------------
(* Properties of the candidate cache *)

(* the step runs the head of the while loop of task t: a cycle begins (the *)
(* user's select is the only caller here), or its sleep is over            *)
RunsLoopHead(t) ==
    \/ task[t].pc = "idle" /\ (task'[t] # task[t] \/ devices' # devices)
    \/ task[t].pc = "sleep" /\ task'[t] # task[t]

ListsUnchanged(e) ==
    /\ img'[e].all = img[e].all
    /\ img'[e].portrait = img[e].portrait
    /\ img'[e].landscape = img[e].landscape
    /\ img'[e].ids_last = img[e].ids_last

(* C26: a cycle of an album, person or favorites entry calls the remote    *)
(* for the candidate list if and only if the list was never fetched or was *)
(* fetched more than ID_LIST_REFRESH_INTERVAL ago; otherwise it selects    *)
(* from the cached lists, which stay as they are, empty or not; the answer *)
(* of the remote sets the time of the fetch, a call that raises does not.  *)
C26_ListFetchedWhenStale ==
    [][\A t \in UserTasks :
          LET e == task'[t].ent
              stale == \/ img[e].ids_last = NoTime
                       \/ now - img[e].ids_last > ID_LIST_REFRESH_INTERVAL
          IN ~IsRandom(e) =>
               /\ RunsLoopHead(t) =>
                     /\ task'[t].pc = "refresh" <=> stale
                     /\ ~stale => ListsUnchanged(e)
               /\ (task[t].pc = "refresh" /\ task'[t].pc # "refresh") =>
                     IF task'[t].result = "error" THEN ListsUnchanged(e)
                     ELSE img'[e].ids_last = now]_vars

(* a list that was fetched before, with no asset in it, is fetched again:  *)
(* its window is over                                                      *)
C26_Witness ==
    /\ ~IsRandom("e1")
    /\ task["user"].pc = "refresh"
    /\ img["e1"].ids_last # NoTime
    /\ img["e1"].all = <<>>
    /\ now - img["e1"].ids_last > ID_LIST_REFRESH_INTERVAL

(* C27: a selection step of the random pool calls the remote for a new     *)
(* pool if and only if one of its three lists is empty when the step       *)
(* begins, whatever the time; when the remote reports zero images the      *)
(* three lists stay as they are and the step ends with no image.           *)
C27_PoolFetchedWhenAListIsEmpty ==
    [][\A t \in UserTasks :
          LET e == task'[t].ent
          IN IsRandom(e) =>
               /\ RunsLoopHead(t) =>
                     /\ task'[t].pc = "refresh" <=> AnyListEmpty(img[e])
                     /\ img'[e].ids_last = NoTime
               /\ (task[t].pc = "refresh" /\ RefreshEmptyStats(t)) =>
                     /\ ListsUnchanged(e)
                     /\ task'[t].pc = "idle"
                     /\ task'[t].result = "noimage"]_vars

(* late in the run a second candidate is taken from the pool, with no      *)
(* fetch since the first one                                               *)
C27_Witness ==
    /\ IsRandom("e1")
    /\ now = MaxTime
    /\ task["user"].pc = "download"
    /\ Len(pool["e1"]) = 2

-----------------------------------------------------------------------------
(* Properties of the retries of a cycle *)

(* C28: in a cycle of an album, person or favorites entry, the candidate   *)
(* attempted after a download that returned no bytes is another one than   *)
(* the candidate the cycle attempted before it, whose download returned no *)
(* bytes.                                                                  *)
C28_RetryTakesAnotherCandidate ==
    [][\A t \in Tasks :
          (/\ ~IsRandom(task[t].ent)
           /\ task[t].pc \in {"sleep", "refresh"}
           /\ task[t].asset # NoAsset
           /\ task'[t].pc = "download")
          => task'[t].asset # task[t].asset]_vars

-----------------------------------------------------------------------------
(* Properties of the removal of a device *)

(* the identifiers of this integration among the ones a device carries *)
OwnIdentifiers(identifiers) == {x \in identifiers : x[1] = "immich"}

(* C29: when the user removes a device that carries an identifier (immich, *)
(* id, type, created), the record of (id, created) is deleted, the watched *)
(* entries with that id, type and created, and only they, leave the        *)
(* persisted list, every other record and entry stays as it is and the     *)
(* call returns true; for a device without an identifier of the            *)
(* integration the call returns false and changes nothing.                 *)
C29_RemovalDeletesRecordAndEntries ==
    [][(call' # call /\ call'.op = "async_remove_config_entry_device") =>
          LET own == OwnIdentifiers(call'.args[1])
              old == hass.watched
              new == hass'.watched
          IN IF own = {}
             THEN /\ call'.result = <<FALSE>>
                  /\ devices' = devices
                  /\ new = old
             ELSE \E x \in own :
                    LET gone == {i \in DOMAIN old : /\ old[i].id = x[2]
                                                    /\ old[i].type = x[3]
                                                    /\ old[i].created = x[4]}
                    IN /\ call'.result = <<TRUE>>
                       /\ DOMAIN devices' = DOMAIN devices \ {get_device_id(x[2], x[4])}
                       /\ \A k \in DOMAIN devices' : devices'[k] = devices[k]
                       /\ Len(new) = Len(old) - Cardinality(gone)
                       /\ \A i \in DOMAIN old \ gone :
                             new[i - Cardinality({j \in gone : j < i})] = old[i]]_vars

(* the device of the entry added first was removed: its record and its     *)
(* entry are gone, the record and the entry of the same album added later  *)
(* are still there                                                         *)
C29_Witness ==
    /\ call.op = "async_remove_config_entry_device"
    /\ call.result = <<TRUE>>
    /\ call.args[1] = {DeviceIdentifier(entries["e1"])}
    /\ DOMAIN devices = {DeviceKey("e2")}
    /\ hass.watched = <<entries["e2"]>>

(* C30: a device record removed while a tick pass is suspended inside one  *)
(* entry's refresh does not make the pass fail: when that refresh returns  *)
(* without raising and the dict holds another number of records than at    *)
(* the start of the pass, the pass still runs to its end and completes     *)
C30_PassSurvivesRegistryChange ==
    [][(/\ tick.pc = "cycle"
        /\ tick'.pc = "idle"
        /\ devOrder' = devOrder
        /\ Len(devOrder) # tick.used
        /\ task'["tick"].result # "error")
       => tick'.outcome = "completed"]_vars

-----------------------------------------------------------------------------
(* Properties of the setters on a record without image entity *)

(* the step calls set_thumbnail_mode or set_orientation for e with value v *)
SetsOption(e, s, v) ==
    IF s = "thumbnail" THEN set_thumbnail_mode("user", e, v)
    ELSE set_orientation("user", e, v)

(* e has no record, or a record without image reference *)
HasNoImage(e) ==
    IF DeviceKey(e) \in DOMAIN devices THEN devices[DeviceKey(e)].image = NoImage
    ELSE TRUE

(* C31: set_thumbnail_mode or set_orientation for an entry that has no      *)
(* record, or a record without image reference, stores the value in the    *)
(* record (a new record holds the defaults for everything else, an         *)
(* existing one keeps everything else), leaves the other records alone,    *)
(* and returns without raising and without starting a cycle: no image      *)
(* state and no pool changes, and the task is not left inside a cycle.     *)
C31_SetterWithoutImageOnlyStores ==
    [][\A e \in DOMAIN entries : \A s \in {"thumbnail", "orientation"} :
       \A v \in OptionsOf(s) :
          (HasNoImage(e) /\ task["user"].pc = "idle" /\ SetsOption(e, s, v)) =>
             LET k == DeviceKey(e)
                 old == IF k \in DOMAIN devices THEN devices[k] ELSE NewDeviceRecord(e)
             IN /\ DOMAIN devices' = DOMAIN devices \cup {k}
                /\ devices'[k] = [old EXCEPT ![s] = v]
                /\ \A x \in DOMAIN devices \ {k} : devices'[x] = devices[x]
                /\ task'["user"].pc = "idle"
                /\ task'["user"].result = "nocycle"
                /\ task'["tick"] = task["tick"]
                /\ img' = img
                /\ pool' = pool
                /\ tick' = tick]_vars

(* the orientation select was activated with the persisted portrait option *)
(* before either platform registered for the entry: the setter created the *)
(* record, which holds portrait and no image reference, and no cycle ran   *)
C31_Witness ==
    \E e \in DOMAIN entries :
        /\ sel[e].added = {"orientation"}
        /\ sel[e].restored["orientation"] = SETTING_ORIENTATION_PORTRAIT
        /\ DeviceKey(e) \in DOMAIN devices
        /\ devices[DeviceKey(e)] =
              [NewDeviceRecord(e) EXCEPT !.orientation = SETTING_ORIENTATION_PORTRAIT]
        /\ task["user"].result = "nocycle"
        /\ task["user"].pc = "idle"

====
